---- MODULE Spec2Model ----
(***************************************************************************)
(* Seyd-Yaar (docs/app.js): raster aggregation, masking, Top-K, clustering *)
(* and the AOI / analysis session state, modelled from the source.         *)
(*                                                                         *)
(* Numbers.  A raster value is a float or NaN.  The model keeps values as  *)
(* integers in units of 1/One (One stands for probability 1.0) so that     *)
(* every division the code makes on the model's inputs is exact; NaN and   *)
(* +Infinity are two integers outside the value range.  An absent          *)
(* (null / undefined) array is the empty tuple; arrays have length >= 1.   *)
(***************************************************************************)
EXTENDS Integers, Sequences, FiniteSets, TLC

VARIABLES
    pc,             \* harness position of a pure-function run: "call" | "done"
    call,           \* the arguments of the function under check
    ret,            \* its result
    baseMask,       \* state.baseMask
    userAoi,        \* state.userAoi
    userMask,       \* state.userMask
    analysisMask,   \* state.analysisMask
    aoiText,        \* $("aoiText").value
    dirty,          \* state.dirty
    alerts,         \* number of alert() dialogs shown so far (capped)
    grid,           \* state.grid
    pointsHandlers, \* click listeners registered on usePointsBtn
    load,           \* position of loadSpeciesMetaAndInit: "idle" | "mask" | "times"
    cache,          \* state.cache : the set of URLs held (the data is a function of the URL)
    lastComputed,   \* state.lastComputed
    reqs,           \* computeAndRender invocations
    toasts,         \* toast() notifications raised by the Analyze handler, by kind
    qcOn,           \* state.qcOn
    clusterWeights, \* state.clusterWeights
    weightInputs,   \* the values of wMeanNum, wMaxNum, wAreaNum, in hundredths
    autoOn,         \* $("autoAnalyzeToggle").checked
    anTimer,        \* _anTimer: [ms |-> time until the pending timeout is due], Null when none is pending
    sinceChange,    \* ms since the last exploratory change made with auto-analyze on, capped at the delay
    scale,          \* state._distVals, state.scaleMin, state.scaleMax; Null before the first computation
    play,           \* playback: state.playing, state.timer, the time selects and the tick closures
    fb              \* feedback: lastFbTs, the clock, the writes in flight and the records saved

fnVars  == <<pc, call, ret>>
aoiVars == <<baseMask, userAoi, userMask, analysisMask, aoiText, dirty, alerts,
             grid, pointsHandlers, load>>
uiVars  == <<clusterWeights, weightInputs, autoOn, anTimer, sinceChange>>
xVars   == <<play, fb>>
runVars == <<cache, lastComputed, reqs, toasts, qcOn, uiVars, scale, xVars>>
vars    == <<pc, call, ret, baseMask, userAoi, userMask, analysisMask, aoiText,
             dirty, alerts, grid, pointsHandlers, load,
             cache, lastComputed, reqs, toasts, qcOn,
             clusterWeights, weightInputs, autoOn, anTimer, sinceChange,
             scale, play, fb>>

(***************************************************************************)
(* Bounds of the model.                                                    *)
(***************************************************************************)
MaxT == 4           \* layers (timestamps) of one aggregation
NPix == 1           \* pixels of a layer in the aggregation runs
MaxArr == 5         \* length of the array given to topKFromArray
MaxK == 3           \* largest k given to topKFromArray
MaxPts == 4         \* points given to dbscan
MaxCells == 9       \* cells of a grid given to buildClustersContour
MaxFull == 5        \* side of the largest all-foreground grid
HoleSide == 4       \* side of the grids with background cells cut out of a full grid
MaxHoleCells == 4   \* background cells cut out of such a grid
RingSafety == 100000  \* while(safety<100000)
MaxClusterPts == 2500  \* pts.slice(0, 2500)
MaskLen == 3        \* pixels of the masks given to combineMask
PipMax == 6         \* largest coordinate of the point-in-polygon runs
MaxAlerts == 2      \* alert() dialogs counted
MaxHandlers == 2    \* listeners counted on usePointsBtn
MaxReqs == 2        \* computeAndRender invocations of a behaviour
PlayQuantum == 450  \* largest step of the clock of the playback runs, in ms
PlayPeriod == 900   \* setTimeout(tick, 900)
BusyRetry == 350    \* setTimeout(tick, 350)
FbEpoch == 5000     \* Date.now() when the page is loaded, in ms
FbQuantum == 2500   \* step of the clock of the feedback runs, in ms
MaxFbSteps == 4     \* steps of that clock
RateMs == 5000      \* if(now - lastFbTs < 5000)
MaxInfos == 2       \* clusters handed to renderClusters
MaxRamp == 30       \* widest two-row grid of the colour-scale runs
TickMs == 80        \* largest advance of time in one step, ms
AnDelay == 320      \* setTimeout(..., 320)

(***************************************************************************)
(* Values.                                                                 *)
(***************************************************************************)
RECURSIVE Gcd(_, _)
Gcd(a, b) == IF b = 0 THEN a ELSE Gcd(b, a % b)

RECURSIVE LcmUpTo(_)
LcmUpTo(n) == IF n <= 1 THEN 1 ELSE (LcmUpTo(n - 1) * n) \div Gcd(LcmUpTo(n - 1), n)

One == LcmUpTo(MaxT + 1)      \* probability 1.0; every mean of <= MaxT+1 values is exact

NaN == 0 - 1000000
PInf == 1000000
Null == << >>

isFinite(v) == v # NaN /\ v # PInf

RECURSIVE SumSeq(_)
SumSeq(s) == IF s = << >> THEN 0 ELSE Head(s) + SumSeq(Tail(s))

Range(s) == {s[j] : j \in DOMAIN s}

\* TypedArray.prototype.sort(): ascending numeric order
RECURSIVE InsertAsc(_, _)
InsertAsc(v, s) ==
    IF s = << >> THEN <<v>>
    ELSE IF v < Head(s) THEN <<v>> \o s
    ELSE <<Head(s)>> \o InsertAsc(v, Tail(s))

RECURSIVE sortAsc(_)
sortAsc(s) == IF s = << >> THEN << >> ELSE InsertAsc(s[Len(s)], sortAsc(SubSeq(s, 1, Len(s) - 1)))

(***************************************************************************)
(* aggregatePerPixel(arrs, method), reading state.analysisMask.             *)
(***************************************************************************)
\* the mask test of one pixel: state.analysisMask && state.analysisMask[i]===0
pixelMasked_ignored(mask, i) == FALSE
pixelMasked(mask, i) == mask # Null /\ i \in DOMAIN mask /\ mask[i] = 0

\* tmp[0..k): the finite values of the layers at pixel i, in layer order
RECURSIVE finiteAt(_, _)
finiteAt(arrs, i) ==
    IF arrs = << >> THEN << >>
    ELSE LET v == Head(arrs)[i]
         IN  (IF isFinite(v) THEN <<v>> ELSE << >>) \o finiteAt(Tail(arrs), i)

\* let m=-1; for(...) if(tmp[j]>m) m=tmp[j];
RECURSIVE maxFrom(_, _)
maxFrom(m, tmp) ==
    IF tmp = << >> THEN m
    ELSE maxFrom(IF Head(tmp) > m THEN Head(tmp) ELSE m, Tail(tmp))

\* Math.floor((k-1)*0.5) and Math.floor((k-1)*0.9), 0-based
medianIndex(k) == (k - 1) \div 2
p90Index_rounded(k) == (9 * (k - 1) + 5) \div 10
p90Index(k) == (9 * (k - 1)) \div 10

reducePixel(tmp, method) ==
    LET k == Len(tmp)
    IN  CASE method = "mean"   -> SumSeq(tmp) \div k
          [] method = "max"    -> maxFrom(0 - One, tmp)
          [] method = "median" -> sortAsc(tmp)[medianIndex(k) + 1]
          [] method = "p90"    -> sortAsc(tmp)[p90Index(k) + 1]
          [] OTHER             -> SumSeq(tmp) \div k

aggregatePerPixel(arrs, method, mask) ==
    LET N == Len(arrs[1])
    IN  [i \in 1..N |->
            IF pixelMasked(mask, i) THEN NaN
            ELSE LET tmp == finiteAt(arrs, i)
                 IN  IF Len(tmp) = 0 THEN NaN ELSE reducePixel(tmp, method)]


(***************************************************************************)
(* The parts of the session state a pure-function run leaves alone.        *)
(***************************************************************************)
\* The text of an input field: blank (empty or white space only), text that
\* is not JSON, or the JSON text of a value.
BlankText == [chars |-> "blank", val |-> Null]
GarbageText == [chars |-> "garbage", val |-> Null]

(***************************************************************************)
(* Cluster score weights: _setWeights(a,b,c) with the inputs in            *)
(* hundredths.  The result is the triple a/den, b/den, c/den.              *)
(***************************************************************************)
\* a = Number(a)||0
numberOrZero(x) == IF isFinite(x) THEN x ELSE 0

\* const sum = (a+b+c) || 1;  (1 is 100 hundredths)
sumOrOne_sum(s) == s
sumOrOne(s) == IF s = 0 THEN 100 ELSE s

setWeights(a0, b0, c0) ==
    LET a == numberOrZero(a0)
        b == numberOrZero(b0)
        c == numberOrZero(c0)
    IN  [a |-> a, b |-> b, c |-> c, den |-> sumOrOne(a + b + c)]

applyWeightPreset(name) ==
    CASE name = "stable" -> setWeights(85, 15, 2)
      [] name = "peak"   -> setWeights(45, 55, 2)
      [] name = "wide"   -> setWeights(60, 25, 15)
      [] OTHER           -> setWeights(70, 30, 2)

\* state.clusterWeights.a.toFixed(2), in hundredths
toFixed2(x, den) == (200 * x + den) \div (2 * den)

\* the three inputs after _setWeights has written the weights back
shownWeights(w) == <<toFixed2(w.a, w.den), toFixed2(w.b, w.den), toFixed2(w.c, w.den)>>

\* the page before its boot: listeners registered, presets applied
\* playback before the first Play click: state.playing, state.timer, the
\* selected indexes of t0Select and t1Select, and the tick closures made by
\* startPlay
\* startPlay.  A closure is [busy, rangeLen, at, ms, req]: at is "run" while
\* its tick awaits computeAndRender invocation req, "wait" while its timeout
\* is pending (due in ms) and "end" when it has neither; state.timer is Null
\* or names the closure whose timeout handle it holds
PlayIdle == [playing |-> FALSE, timer |-> Null, i0 |-> 0, i1 |-> 0, chains |-> << >>]

\* feedback before the first Save click: let lastFbTs = 0, no write in flight.
\* now is Date.now(), clicked the time of the last Save click, pending the
\* records whose IndexedDB write is in flight, saved the records in the store
\* and hint the text of fbHint
FbIdle == [lastFbTs |-> 0, now |-> FbEpoch, clicked |-> 0, pending |-> {}, saved |-> {},
           hint |-> ""]

AoiIdle ==
    /\ baseMask = Null /\ userAoi = Null /\ userMask = Null
    /\ aoiText = BlankText /\ dirty = TRUE /\ alerts = 0
    /\ grid = Null /\ pointsHandlers = 0 /\ load = "idle"

RunIdle ==
    /\ cache = {} /\ lastComputed = Null /\ reqs = << >>
    /\ toasts = [ok |-> 0, warn |-> 0] /\ qcOn = TRUE
    /\ clusterWeights = applyWeightPreset("default")
    /\ weightInputs = shownWeights(clusterWeights)
    /\ autoOn = FALSE /\ anTimer = Null /\ sinceChange = AnDelay
    /\ scale = Null /\ play = PlayIdle /\ fb = FbIdle

(***************************************************************************)
(* SpecAgg: aggregatePerPixel on every layer stack within the bounds.      *)
(***************************************************************************)
PixVals == {NaN, 0, One}
Layers == [1..NPix -> PixVals]
LayerStacks == UNION {[1..t -> Layers] : t \in 1..MaxT}
Masks(n) == {Null} \cup [1..n -> {0, 1}]
AggMethods == {"mean", "max", "median", "p90", "sum"}

InitAgg ==
    /\ pc = "call"
    /\ call \in [arrs : LayerStacks, method : AggMethods]
    /\ ret = << >>
    /\ analysisMask \in Masks(NPix)
    /\ AoiIdle /\ RunIdle

AggregateStep ==
    /\ pc = "call"
    /\ ret' = aggregatePerPixel(call.arrs, call.method, analysisMask)
    /\ pc' = "done"
    /\ UNCHANGED <<call, aoiVars, runVars>>

NextAgg == AggregateStep

SpecAgg == InitAgg /\ [][NextAgg]_vars

\* C1: for every method and every pixel i whose effective mask value is 0,
\* the aggregated output at i is NaN, whatever the layers hold at i.
C1_MaskedIsNaN ==
    pc = "done" =>
        \A i \in DOMAIN ret :
            (analysisMask # Null /\ analysisMask[i] = 0) => ret[i] = NaN

\* C1 witness: a masked pixel with a finite input has been aggregated.
C1_Witness ==
    /\ pc = "done"
    /\ \E i \in DOMAIN ret :
          /\ analysisMask # Null /\ analysisMask[i] = 0
          /\ \E t \in DOMAIN call.arrs : isFinite(call.arrs[t][i])
          /\ ret[i] = NaN

\* the finite inputs at pixel i, as a set of layer indices
FiniteLayers(i) == {t \in DOMAIN call.arrs : isFinite(call.arrs[t][i])}
CountBelow(i, x) == Cardinality({t \in FiniteLayers(i) : call.arrs[t][i] < x})
CountAtMost(i, x) == Cardinality({t \in FiniteLayers(i) : call.arrs[t][i] <= x})
RECURSIVE SumOver(_, _)
SumOver(S, i) ==
    IF S = {} THEN 0
    ELSE LET t == CHOOSE t \in S : TRUE IN call.arrs[t][i] + SumOver(S \ {t}, i)

\* x is the element at 0-based index idx of the ascending sort of the finite inputs
IsRank(i, x, idx) ==
    /\ \E t \in FiniteLayers(i) : call.arrs[t][i] = x
    /\ CountBelow(i, x) <= idx
    /\ idx < CountAtMost(i, x)

\* C2: at an unmasked pixel with k >= 1 finite inputs the output is the
\* reference reduction of the finite values only: mean (also for an unknown
\* method string), maximum, rank floor((k-1)*0.5), rank floor((k-1)*0.9);
\* with a single finite input every method returns that value.
C2_Reduction ==
    pc = "done" =>
        \A i \in DOMAIN ret :
            LET F == FiniteLayers(i)
                k == Cardinality(F)
                m == call.method
            IN  (~(analysisMask # Null /\ analysisMask[i] = 0) /\ k >= 1) =>
                  /\ isFinite(ret[i])
                  /\ m \in {"mean", "sum"} => ret[i] * k = SumOver(F, i)
                  /\ m = "max" =>
                        /\ \E t \in F : call.arrs[t][i] = ret[i]
                        /\ \A t \in F : call.arrs[t][i] <= ret[i]
                  /\ m = "median" => IsRank(i, ret[i], (k - 1) \div 2)
                  /\ m = "p90" => IsRank(i, ret[i], (9 * (k - 1)) \div 10)
                  /\ k = 1 => \A t \in F : ret[i] = call.arrs[t][i]

\* C2 witness: a p90 over four finite values and one non-finite layer whose
\* result differs from both the maximum and the median.
C2_Witness ==
    /\ pc = "done" /\ call.method = "p90"
    /\ \E i \in DOMAIN ret :
          /\ ~(analysisMask # Null /\ analysisMask[i] = 0)
          /\ Cardinality(FiniteLayers(i)) >= 2
          /\ Cardinality(FiniteLayers(i)) < Len(call.arrs)
          /\ ret[i] = 0
          /\ \E t \in FiniteLayers(i) : call.arrs[t][i] = One


(***************************************************************************)
(* Grid geometry (state.grid).  The model's grids have one-degree cells,   *)
(* so dx and dy are exact.                                                 *)
(***************************************************************************)
Grid(w, h) ==
    [width |-> w, height |-> h,
     lon_min |-> 50, lon_max |-> 50 + (w - 1),
     lat_min |-> 20, lat_max |-> 20 + (h - 1)]

gridDx(g) == (g.lon_max - g.lon_min) \div (g.width - 1)
gridDy(g) == (g.lat_max - g.lat_min) \div (g.height - 1)

(***************************************************************************)
(* topKFromArray(arr, k), reading state.grid.  Array.prototype.sort is     *)
(* stable (ECMAScript 2019): equal keys keep their order.                  *)
(***************************************************************************)
\* best.sort((a,b)=>a.v-b.v)
RECURSIVE insertByVAsc(_, _)
insertByVAsc(x, s) ==
    IF s = << >> THEN <<x>>
    ELSE IF x.v < Head(s).v THEN <<x>> \o s
    ELSE <<Head(s)>> \o insertByVAsc(x, Tail(s))

RECURSIVE sortByVAsc(_)
sortByVAsc(s) ==
    IF s = << >> THEN << >>
    ELSE insertByVAsc(s[Len(s)], sortByVAsc(SubSeq(s, 1, Len(s) - 1)))

\* best.sort((a,b)=>b.v-a.v)
RECURSIVE insertByVDesc(_, _)
insertByVDesc(x, s) ==
    IF s = << >> THEN <<x>>
    ELSE IF x.v > Head(s).v THEN <<x>> \o s
    ELSE <<Head(s)>> \o insertByVDesc(x, Tail(s))

RECURSIVE sortByVDesc(_)
sortByVDesc(s) ==
    IF s = << >> THEN << >>
    ELSE insertByVDesc(s[Len(s)], sortByVDesc(SubSeq(s, 1, Len(s) - 1)))

\* the candidate test of the scan: if(!Number.isFinite(v)) continue;
topCandidate_any(v) == TRUE
topCandidate(v) == isFinite(v)

\* else if(v > best[0].v)
topReplaces_orEqual(v, best) == v >= best[1].v
topReplaces(v, best) == v > best[1].v

\* the scan loop from 0-based index i on; best is kept ascending by v
RECURSIVE topScan(_, _, _, _)
topScan(best, arr, i, k) ==
    IF i >= Len(arr) THEN best
    ELSE LET v == arr[i + 1]
         IN  IF ~topCandidate(v) THEN topScan(best, arr, i + 1, k)
             ELSE IF Len(best) < k
                  THEN topScan(sortByVAsc(Append(best, [i |-> i, v |-> v])), arr, i + 1, k)
             ELSE IF topReplaces(v, best)
                  THEN topScan(sortByVAsc(<<[i |-> i, v |-> v]>> \o Tail(best)), arr, i + 1, k)
             ELSE topScan(best, arr, i + 1, k)

topKFromArray(arr, k, g) ==
    LET W == g.width
        best == sortByVDesc(topScan(<< >>, arr, 0, k))
    IN  [r \in 1..Len(best) |->
            [rank |-> r,
             lat  |-> g.lat_max - (best[r].i \div W) * gridDy(g),
             lon  |-> g.lon_min + (best[r].i % W) * gridDx(g),
             p    |-> best[r].v]]

(***************************************************************************)
(* SpecTop: topKFromArray on every array within the bounds.  The callers   *)
(* pass k = 100 (renderFromCache) or 10, so k >= 1.                        *)
(***************************************************************************)
TopVals == {NaN, PInf, 10, 50, 90, 95}
TopArrays == UNION {[1..n -> TopVals] : n \in 0..MaxArr}
TopGrid == Grid(3, 2)

InitTop ==
    /\ pc = "call"
    /\ call \in [arr : TopArrays, k : 1..MaxK]
    /\ ret = << >>
    /\ analysisMask = Null
    /\ AoiIdle /\ RunIdle

TopKStep ==
    /\ pc = "call"
    /\ ret' = topKFromArray(call.arr, call.k, TopGrid)
    /\ pc' = "done"
    /\ UNCHANGED <<call, aoiVars, runVars>>

NextTop == TopKStep

SpecTop == InitTop /\ [][NextTop]_vars

\* the 0-based linear pixel index of a returned point, from its coordinates
PointIndex(pt, g) ==
    ((g.lat_max - pt.lat) \div gridDy(g)) * g.width + ((pt.lon - g.lon_min) \div gridDx(g))

FiniteIdx(arr) == {i \in 0..(Len(arr) - 1) : isFinite(arr[i + 1])}
Min2(a, b) == IF a <= b THEN a ELSE b

\* C3: topKFromArray returns exactly min(k, number of finite entries) points,
\* each a distinct finite entry of arr, no omitted finite entry larger than a
\* returned one, in non-increasing order of value with ranks 1..n.
C3_TopK ==
    pc = "done" =>
        LET arr == call.arr
            F == FiniteIdx(arr)
            R == {PointIndex(ret[r], TopGrid) : r \in DOMAIN ret}
        IN  /\ Len(ret) = Min2(call.k, Cardinality(F))
            /\ Cardinality(R) = Len(ret)
            /\ R \subseteq F
            /\ \A r \in DOMAIN ret :
                  /\ ret[r].rank = r
                  /\ ret[r].p = arr[PointIndex(ret[r], TopGrid) + 1]
                  /\ isFinite(ret[r].p)
                  /\ r > 1 => ret[r - 1].p >= ret[r].p
            /\ \A i \in F \ R : \A r \in DOMAIN ret : arr[i + 1] <= ret[r].p

\* C3 witness: [0.9, 0.1, 0.95, NaN, 0.5] with k = 2 gives [0.95, 0.9].
C3_Witness ==
    /\ pc = "done"
    /\ call.arr = <<90, 10, 95, NaN, 50>> /\ call.k = 2
    /\ Len(ret) = 2 /\ ret[1].p = 95 /\ ret[2].p = 90

\* C4: of two returned points with equal probability the one with the lower
\* linear pixel index has the smaller rank.
C4_TiesByScanOrder ==
    pc = "done" =>
        \A r1, r2 \in DOMAIN ret :
            (ret[r1].p = ret[r2].p
               /\ PointIndex(ret[r1], TopGrid) < PointIndex(ret[r2], TopGrid))
            => ret[r1].rank < ret[r2].rank


(***************************************************************************)
(* havKm(ax, ay, bx, by): haversine distance in km, x = longitude and      *)
(* y = latitude in degrees (dLat = by-ay, dLon = bx-ax, cos(ay)cos(by)),   *)
(* R = 6371.  The model tabulates the formula on the degrees               *)
(* DegSet = {0, 1, 60, 61}: havCeilKm[ax][ay][bx][by] is the value of the  *)
(* formula rounded up to a whole km, so that for a whole-km eps the test   *)
(* havKm(..) <= eps is the test havCeilKm[..] <= eps.                      *)
(***************************************************************************)
DegSet == {0, 1, 60, 61}
degIdx(d) == CASE d = 0 -> 1 [] d = 1 -> 2 [] d = 60 -> 3 [] d = 61 -> 4

havCeilKm ==
  <<
    <<
       <<<<0, 112, 6672, 6783>>, <<112, 158, 6673, 6784>>, <<6672, 6673, 8398, 8448>>, <<6783, 6784, 8448, 8496>>>>,
       <<<<112, 0, 6561, 6672>>, <<158, 112, 6562, 6673>>, <<6673, 6671, 8299, 8348>>, <<6784, 6782, 8349, 8396>>>>,
       <<<<6672, 6561, 0, 112>>, <<6673, 6562, 56, 124>>, <<8398, 8299, 3220, 3172>>, <<8448, 8349, 3270, 3221>>>>,
       <<<<6783, 6672, 112, 0>>, <<6784, 6673, 124, 54>>, <<8448, 8348, 3172, 3120>>, <<8496, 8396, 3221, 3168>>>>
    >>,
    <<
       <<<<112, 158, 6673, 6784>>, <<0, 112, 6672, 6783>>, <<6561, 6562, 8349, 8400>>, <<6672, 6673, 8398, 8448>>>>,
       <<<<158, 112, 6562, 6673>>, <<112, 0, 6561, 6672>>, <<6562, 6560, 8249, 8300>>, <<6673, 6671, 8299, 8348>>>>,
       <<<<6673, 6562, 56, 124>>, <<6672, 6561, 0, 112>>, <<8349, 8249, 3170, 3123>>, <<8398, 8299, 3220, 3172>>>>,
       <<<<6784, 6673, 124, 54>>, <<6783, 6672, 112, 0>>, <<8400, 8300, 3123, 3072>>, <<8448, 8348, 3172, 3120>>>>
    >>,
    <<
       <<<<6672, 6673, 8398, 8448>>, <<6561, 6562, 8349, 8400>>, <<0, 112, 6672, 6783>>, <<112, 158, 6673, 6784>>>>,
       <<<<6673, 6671, 8299, 8348>>, <<6562, 6560, 8249, 8300>>, <<112, 0, 6561, 6672>>, <<158, 112, 6562, 6673>>>>,
       <<<<8398, 8299, 3220, 3172>>, <<8349, 8249, 3170, 3123>>, <<6672, 6561, 0, 112>>, <<6673, 6562, 56, 124>>>>,
       <<<<8448, 8348, 3172, 3120>>, <<8400, 8300, 3123, 3072>>, <<6783, 6672, 112, 0>>, <<6784, 6673, 124, 54>>>>
    >>,
    <<
       <<<<6783, 6784, 8448, 8496>>, <<6672, 6673, 8398, 8448>>, <<112, 158, 6673, 6784>>, <<0, 112, 6672, 6783>>>>,
       <<<<6784, 6782, 8349, 8396>>, <<6673, 6671, 8299, 8348>>, <<158, 112, 6562, 6673>>, <<112, 0, 6561, 6672>>>>,
       <<<<8448, 8349, 3270, 3221>>, <<8398, 8299, 3220, 3172>>, <<6673, 6562, 56, 124>>, <<6672, 6561, 0, 112>>>>,
       <<<<8496, 8396, 3221, 3168>>, <<8448, 8348, 3172, 3120>>, <<6784, 6673, 124, 54>>, <<6783, 6672, 112, 0>>>>
    >>
  >>

havKm(ax, ay, bx, by) == havCeilKm[degIdx(ax)][degIdx(ay)][degIdx(bx)][degIdx(by)]

(***************************************************************************)
(* dbscan(points, epsKm, minPts).  Points are 1-based in the model; the    *)
(* label of a point is -1 (noise) or its cluster id (0-based, as in the    *)
(* code).                                                                  *)
(***************************************************************************)
\* the distance test of regionQuery: havKm(pi.lat, pi.lon, pj.lat, pj.lon) <= epsKm
inRange_lonLat(pi, pj, epsKm) == havKm(pi.lon, pi.lat, pj.lon, pj.lat) <= epsKm
inRange(pi, pj, epsKm) == havKm(pi.lat, pi.lon, pj.lat, pj.lon) <= epsKm

\* regionQuery(i): the indices j # i in range of i, ascending
regionQuery(points, i, epsKm) ==
    SelectSeq([j \in 1..Len(points) |-> j],
              LAMBDA j : j # i /\ inRange(points[i], points[j], epsKm))

\* neigh.length + 1 >= minPts
isCore_strict(neigh, minPts) == Len(neigh) >= minPts
isCore(neigh, minPts) == Len(neigh) + 1 >= minPts

\* while(seed.length){ const j=seed.pop(); ... }
RECURSIVE dbExpand(_, _, _, _, _, _)
dbExpand(st, seed, cid, points, epsKm, minPts) ==
    IF seed = << >> THEN st
    ELSE LET j == seed[Len(seed)]
             rest == SubSeq(seed, 1, Len(seed) - 1)
             neigh2 == regionQuery(points, j, epsKm)
             grow == st.visited[j] = 0 /\ isCore(neigh2, minPts)
             seed2 == IF grow THEN rest \o neigh2 ELSE rest
             st2 == [visited |-> [st.visited EXCEPT ![j] = 1],
                     labels  |-> IF st.labels[j] < 0
                                 THEN [st.labels EXCEPT ![j] = cid]
                                 ELSE st.labels]
         IN  dbExpand(st2, seed2, cid, points, epsKm, minPts)

\* for(let i=0;i<n;i++){ ... }
RECURSIVE dbLoop(_, _, _, _, _, _)
dbLoop(i, st, cid, points, epsKm, minPts) ==
    IF i > Len(points) THEN [labels |-> st.labels, cid |-> cid]
    ELSE IF st.visited[i] = 1 THEN dbLoop(i + 1, st, cid, points, epsKm, minPts)
    ELSE LET neigh == regionQuery(points, i, epsKm)
             st1 == [st EXCEPT !.visited[i] = 1]
         IN  IF ~isCore(neigh, minPts)
             THEN dbLoop(i + 1, [st1 EXCEPT !.labels[i] = 0 - 1], cid, points, epsKm, minPts)
             ELSE dbLoop(i + 1,
                         dbExpand([st1 EXCEPT !.labels[i] = cid], neigh, cid,
                                  points, epsKm, minPts),
                         cid + 1, points, epsKm, minPts)

dbscan(points, epsKm, minPts) ==
    LET n == Len(points)
        fin == dbLoop(1, [labels |-> [i \in 1..n |-> 0 - 1], visited |-> [i \in 1..n |-> 0]],
                      0, points, epsKm, minPts)
    IN  [labels   |-> fin.labels,
         clusters |-> [c \in 1..fin.cid |->
                          SelectSeq([i \in 1..n |-> i], LAMBDA i : fin.labels[i] = c - 1)]]

(***************************************************************************)
(* SpecDb: dbscan on every point list within the bounds.                   *)
(***************************************************************************)
DbPositions == {[lat |-> la, lon |-> lo] : la \in {0, 1, 60}, lo \in {0, 1, 60}}
DbPointLists == UNION {[1..n -> DbPositions] : n \in 0..MaxPts}
DbEps == {60, 115}
DbMinPts == {2, 3}

InitDb ==
    /\ pc = "call"
    /\ call \in [points : DbPointLists, epsKm : DbEps, minPts : DbMinPts]
    /\ ret = << >>
    /\ analysisMask = Null
    /\ AoiIdle /\ RunIdle

DbscanStep ==
    /\ pc = "call"
    /\ ret' = dbscan(call.points, call.epsKm, call.minPts)
    /\ pc' = "done"
    /\ UNCHANGED <<call, aoiVars, runVars>>

NextDb == DbscanStep

SpecDb == InitDb /\ [][NextDb]_vars

\* the great-circle distance of two points: havKm with longitude as x, latitude as y
greatCircleKm(p, q) == havKm(p.lon, p.lat, q.lon, q.lat)

\* G and its complement are two groups of the claim's shape
TwoTightGroups(G) ==
    LET P == call.points
        All == DOMAIN P
        H == All \ G
    IN  /\ Cardinality(G) >= call.minPts /\ Cardinality(H) >= call.minPts
        /\ \A i, j \in G : greatCircleKm(P[i], P[j]) <= call.epsKm
        /\ \A i, j \in H : greatCircleKm(P[i], P[j]) <= call.epsKm
        /\ \A i \in G : \A j \in H : greatCircleKm(P[i], P[j]) > call.epsKm

ClusterSets == {Range(ret.clusters[c]) : c \in DOMAIN ret.clusters}

\* C5: on two groups of at least minPts points, each mutually within epsKm
\* (great-circle), every cross-group pair farther apart than epsKm, dbscan
\* returns exactly the two groups as its clusters, in whatever order the
\* points are given.
C5_TwoGroups ==
    pc = "done" =>
        \A G \in SUBSET (DOMAIN call.points) :
            TwoTightGroups(G) =>
                /\ Len(ret.clusters) = 2
                /\ ClusterSets = {G, DOMAIN call.points \ G}

(***************************************************************************)
(* buildClustersContour: threshold mask, 4-connected flood fill, boundary  *)
(* rings.  Cells are 0-based linear indices y*W+x as in the code; arrays   *)
(* are 1-based in the model, so cell ii is element ii+1.  Raster values    *)
(* are in percent here, so v >= thrVal (thrVal = thrPct/100) is            *)
(* v >= thrPct.  state.userAOI and state.serverAOI are assigned nowhere    *)
(* in the program, so aoi is null and the AOI test never excludes a cell.  *)
(***************************************************************************)
\* Number(text || dflt) for the texts the model enters in a number input
numberOr(text, dflt) ==
    CASE text = ""   -> dflt
      [] text = "0"  -> 0
      [] text = "1"  -> 1
      [] text = "2"  -> 2
      [] text = "3"  -> 3
      [] text = "85" -> 85
      [] text = "90" -> 90

Max2(a, b) == IF a >= b THEN a ELSE b

\* const minCells = Math.max(2, Number($("clusterMinPts")?.value || 6));
minCellsOf_unclamped(text) == numberOr(text, 6)
minCellsOf(text) == Max2(2, numberOr(text, 6))

\* const thrPct = Number($("clusterThreshold")?.value||85);
thrPctOf(text) == numberOr(text, 85)

\* if(Number.isFinite(v) && v>=thrVal) mask[y*W+x]=1;
isForeground_belowToo(v, thrPct) == isFinite(v)
isForeground(v, thrPct) == isFinite(v) /\ v >= thrPct

thresholdMask(arr, thrPct) ==
    [i \in DOMAIN arr |-> IF isForeground(arr[i], thrPct) THEN 1 ELSE 0]

\* the neighbours of (cx,cy) in the order of the code: left, right, up, down
neighbours4(cx, cy) == << <<cx - 1, cy>>, <<cx + 1, cy>>, <<cx, cy - 1>>, <<cx, cy + 1>> >>

\* for(const [nx,ny] of nb){ ... label[jj]=cid; push }
RECURSIVE pushNeighbours(_, _, _, _, _, _, _)
pushNeighbours(nb, stack, label, cid, mask, W, H) ==
    IF nb = << >> THEN [stack |-> stack, label |-> label]
    ELSE LET nx == Head(nb)[1]
             ny == Head(nb)[2]
             jj == ny * W + nx
         IN  IF nx < 0 \/ ny < 0 \/ nx >= W \/ ny >= H
             THEN pushNeighbours(Tail(nb), stack, label, cid, mask, W, H)
             ELSE IF mask[jj + 1] # 1 \/ label[jj + 1] # 0 - 1
             THEN pushNeighbours(Tail(nb), stack, label, cid, mask, W, H)
             ELSE pushNeighbours(Tail(nb), Append(stack, <<nx, ny>>),
                                 [label EXCEPT ![jj + 1] = cid], cid, mask, W, H)

\* while(sp>0){ sp--; ... cells.push(ii); ... }
RECURSIVE floodFill(_, _, _, _, _, _, _)
floodFill(stack, label, cells, cid, mask, W, H) ==
    IF stack = << >> THEN [label |-> label, cells |-> cells]
    ELSE LET top == stack[Len(stack)]
             cx == top[1]
             cy == top[2]
             r == pushNeighbours(neighbours4(cx, cy), SubSeq(stack, 1, Len(stack) - 1),
                                 label, cid, mask, W, H)
         IN  floodFill(r.stack, r.label, Append(cells, cy * W + cx), cid, mask, W, H)

\* the scan for(y) for(x) over 0-based cell i; st = [label, comps, cid]
RECURSIVE labelComponents(_, _, _, _, _, _)
labelComponents(i, st, mask, W, H, minCells) ==
    IF i >= W * H THEN st
    ELSE IF mask[i + 1] # 1 \/ st.label[i + 1] # 0 - 1
    THEN labelComponents(i + 1, st, mask, W, H, minCells)
    ELSE LET f == floodFill(<< <<i % W, i \div W>> >>,
                            [st.label EXCEPT ![i + 1] = st.cid], << >>, st.cid, mask, W, H)
         IN  labelComponents(i + 1,
                 [label |-> f.label,
                  comps |-> IF Len(f.cells) >= minCells
                            THEN Append(st.comps, [id |-> st.cid, cells |-> f.cells])
                            ELSE st.comps,
                  cid   |-> st.cid + 1],
                 mask, W, H, minCells)

(***************************************************************************)
(* buildComponentRings(label, cid, W, H).  nextMap is a Map in insertion   *)
(* order: a sequence of [key, outs]; a key "x,y" is the pair <<x, y>>.     *)
(***************************************************************************)
mapHas(nm, k) == \E n \in DOMAIN nm : nm[n].key = k
mapPos(nm, k) == CHOOSE n \in DOMAIN nm : nm[n].key = k

\* addEdge(ax,ay,bx,by)
addEdge_overwrite(nm, a, b) ==
    IF mapHas(nm, a)
    THEN [nm EXCEPT ![mapPos(nm, a)].outs = <<b>>]
    ELSE Append(nm, [key |-> a, outs |-> <<b>>])

addEdge(nm, a, b) ==
    IF mapHas(nm, a)
    THEN [nm EXCEPT ![mapPos(nm, a)].outs = Append(@, b)]
    ELSE Append(nm, [key |-> a, outs |-> <<b>>])

isComp(label, cid, x, y, W) == label[y * W + x + 1] = cid

\* the four boundary tests of one cell, in the order top, right, bottom, left
cellEdges(label, cid, x, y, W, H) ==
    (IF y = 0 \/ ~isComp(label, cid, x, y - 1, W)
        THEN << << <<x, y>>, <<x + 1, y>> >> >> ELSE << >>)
    \o (IF x = W - 1 \/ ~isComp(label, cid, x + 1, y, W)
        THEN << << <<x + 1, y>>, <<x + 1, y + 1>> >> >> ELSE << >>)
    \o (IF y = H - 1 \/ ~isComp(label, cid, x, y + 1, W)
        THEN << << <<x + 1, y + 1>>, <<x, y + 1>> >> >> ELSE << >>)
    \o (IF x = 0 \/ ~isComp(label, cid, x - 1, y, W)
        THEN << << <<x, y + 1>>, <<x, y>> >> >> ELSE << >>)

RECURSIVE addEdges(_, _)
addEdges(nm, es) ==
    IF es = << >> THEN nm ELSE addEdges(addEdge(nm, Head(es)[1], Head(es)[2]), Tail(es))

RECURSIVE edgeMap(_, _, _, _, _, _)
edgeMap(i, nm, label, cid, W, H) ==
    IF i >= W * H THEN nm
    ELSE IF label[i + 1] # cid THEN edgeMap(i + 1, nm, label, cid, W, H)
    ELSE edgeMap(i + 1, addEdges(nm, cellEdges(label, cid, i % W, i \div W, W, H)),
                 label, cid, W, H)

\* the inner while(safety<100000) loop: follow successors from cur
RECURSIVE traceRing(_, _, _, _, _)
traceRing(nm, cur, start, ring, safety) ==
    IF safety >= RingSafety \/ ~mapHas(nm, cur) THEN [nm |-> nm, ring |-> ring]
    ELSE LET n == mapPos(nm, cur)
             outs == nm[n].outs
             nxt == outs[Len(outs)]
             nm2 == IF Len(outs) = 1
                    THEN SubSeq(nm, 1, n - 1) \o SubSeq(nm, n + 1, Len(nm))
                    ELSE [nm EXCEPT ![n].outs = SubSeq(outs, 1, Len(outs) - 1)]
         IN  IF nxt = start
             THEN [nm |-> nm2, ring |-> Append(ring, nxt)]
             ELSE traceRing(nm2, nxt, start, Append(ring, nxt), safety + 1)

\* simplifyGridRing(pts): drop consecutive duplicates, then collinear vertices
RECURSIVE dropRepeats(_, _)
dropRepeats(pts, out) ==
    IF pts = << >> THEN out
    ELSE dropRepeats(Tail(pts),
            IF out = << >> \/ out[Len(out)] # Head(pts) THEN Append(out, Head(pts)) ELSE out)

simplifyGridRing_keepAll(pts) ==
    LET out == dropRepeats(pts, << >>) IN [i \in 1..Len(out) |-> i]

\* the 1-based positions, in the ring without repeats, of the vertices kept
simplifyGridRing(pts) ==
    LET out == dropRepeats(pts, << >>)
        n == Len(out)
        turns(i) ==
            LET a == out[((i - 2 + n) % n) + 1]
                b == out[i]
                c == out[(i % n) + 1]
            IN  ~(b[1] - a[1] = c[1] - b[1] /\ b[2] - a[2] = c[2] - b[2])
    IN  SelectSeq([i \in 1..n |-> i], turns)

ringPoints(pts) ==
    LET out == dropRepeats(pts, << >>)
    IN  [j \in DOMAIN simplifyGridRing(pts) |-> out[simplifyGridRing(pts)[j]]]

\* while(nextMap.size){ ... if(ring.length>4 && ring[ring.length-1]===start) rings.push(...) }
RECURSIVE stitchRings(_, _)
stitchRings(nm, rings) ==
    IF nm = << >> THEN rings
    ELSE LET start == nm[1].key
             t == traceRing(nm, start, start, <<start>>, 0)
         IN  stitchRings(t.nm,
                 IF Len(t.ring) > 4 /\ t.ring[Len(t.ring)] = start
                 THEN Append(rings, ringPoints(t.ring))
                 ELSE rings)

buildComponentRings(label, cid, W, H) ==
    stitchRings(edgeMap(0, << >>, label, cid, W, H), << >>)

\* rings.sort((a,b)=>b.length-a.length)[0] || []
RECURSIVE longestFirst(_, _)
longestFirst(rings, best) ==
    IF rings = << >> THEN best
    ELSE longestFirst(Tail(rings), IF Len(Head(rings)) > Len(best) THEN Head(rings) ELSE best)

\* cornerToLatLon(cx, cy, g, W, H)
cornerToLatLon(c, g) ==
    [lat |-> g.lat_max - ((g.lat_max - g.lat_min) * c[2]) \div g.height,
     lon |-> g.lon_min + ((g.lon_max - g.lon_min) * c[1]) \div g.width]

RECURSIVE maxOfCells(_, _, _)
maxOfCells(cells, arr, mx) ==
    IF cells = << >> THEN mx
    ELSE maxOfCells(Tail(cells), arr,
                    IF arr[Head(cells) + 1] > mx THEN arr[Head(cells) + 1] ELSE mx)

\* the cluster infos handed to renderClusters (the fields the model follows)
buildClustersContour(arr, g, thrText, minPtsText) ==
    LET W == g.width
        H == g.height
        mask == thresholdMask(arr, thrPctOf(thrText))
        st == labelComponents(0, [label |-> [i \in 1..(W * H) |-> 0 - 1],
                                  comps |-> << >>, cid |-> 0],
                              mask, W, H, minCellsOf(minPtsText))
    IN  [c \in DOMAIN st.comps |->
            LET comp == st.comps[c]
                rings == buildComponentRings(st.label, comp.id, W, H)
                poly == longestFirst(rings, << >>)
            IN  [id   |-> comp.id,
                 n    |-> Len(comp.cells),
                 cells |-> comp.cells,
                 mx   |-> maxOfCells(comp.cells, arr, 0 - 100),
                 rings |-> rings,
                 ring |-> poly,
                 poly |-> [j \in DOMAIN poly |-> cornerToLatLon(poly[j], g)]]]

(***************************************************************************)
(* SpecContour: buildClustersContour on every grid of at most MaxCells     *)
(* cells whose cells are either foreground-valued (90) or one background   *)
(* value (NaN or 50), and on the all-foreground grids up to MaxFull x      *)
(* MaxFull.  The grid's extent is W(W-1) x H(H-1) degrees so that cell     *)
(* centres and cell corners are whole degrees.                             *)
(***************************************************************************)
CGrid(w, h) ==
    [width |-> w, height |-> h,
     lon_min |-> 50, lon_max |-> 50 + w * (w - 1),
     lat_min |-> 20, lat_max |-> 20 + h * (h - 1)]

SmallShapes == {wh \in (1..MaxCells) \X (1..MaxCells) : wh[1] * wh[2] <= MaxCells}
FullShapes == (1..MaxFull) \X (1..MaxFull)

ContourInputs ==
    {[grid |-> CGrid(wh[1], wh[2]),
      arr  |-> [i \in 1..(wh[1] * wh[2]) |-> IF i \in fg THEN 90 ELSE bg]] :
        wh \in SmallShapes, fg \in SUBSET (1..MaxCells), bg \in {NaN, 50}}
    \cup
    {[grid |-> CGrid(wh[1], wh[2]), arr |-> [i \in 1..(wh[1] * wh[2]) |-> 90]] :
        wh \in FullShapes}

InitContour ==
    /\ pc = "call"
    /\ \E inp \in ContourInputs, thr \in {"", "90"}, mp \in {"", "1", "3"} :
          call = [grid |-> inp.grid, arr |-> inp.arr, thrText |-> thr, minPtsText |-> mp]
    /\ ret = << >>
    /\ analysisMask = Null
    /\ AoiIdle /\ RunIdle

ContourStep ==
    /\ pc = "call"
    /\ ret' = buildClustersContour(call.arr, call.grid, call.thrText, call.minPtsText)
    /\ pc' = "done"
    /\ UNCHANGED <<call, aoiVars, runVars>>

NextContour == ContourStep

SpecContour == InitContour /\ [][NextContour]_vars

AllForeground ==
    \A i \in DOMAIN call.arr : isFinite(call.arr[i]) /\ call.arr[i] >= thrPctOf(call.thrText)

\* the four outer corners of the grid's extent
OuterCorners(g) ==
    {[lat |-> la, lon |-> lo] : la \in {g.lat_min, g.lat_max}, lo \in {g.lon_min, g.lon_max}}

OneFullCluster ==
    LET g == call.grid
    IN  /\ Len(ret) = 1
        /\ ret[1].n = g.width * g.height
        /\ Range(ret[1].poly) = OuterCorners(g)
        /\ Len(ret[1].poly) = 5
        /\ ret[1].poly[1] = ret[1].poly[5]
        /\ ret[1].poly[1] = [lat |-> g.lat_max, lon |-> g.lon_min]
        /\ ret[1].poly[2] = [lat |-> g.lat_max, lon |-> g.lon_max]
        /\ ret[1].poly[3] = [lat |-> g.lat_min, lon |-> g.lon_max]
        /\ ret[1].poly[4] = [lat |-> g.lat_min, lon |-> g.lon_min]

MinCellsInForce ==
    LET entered == numberOr(call.minPtsText, 6) IN IF entered < 2 THEN 2 ELSE entered

Ok(v) == [ok |-> TRUE, val |-> v]
Throw == [ok |-> FALSE, val |-> Null]

(***************************************************************************)
(* combineMask(base, extra).  base.length of an absent base is a TypeError. *)
(***************************************************************************)
combineMask(base, extra) ==
    IF extra = Null THEN Ok(base)
    ELSE IF base = Null THEN Throw
    ELSE Ok([i \in DOMAIN base |->
                IF base[i] # 0 /\ i \in DOMAIN extra /\ extra[i] # 0 THEN 1 ELSE 0])

(***************************************************************************)
(* SpecMask: combineMask on every pair of masks, present or absent.        *)
(***************************************************************************)
InitMask ==
    /\ pc = "call"
    /\ call \in [base : Masks(MaskLen), extra : Masks(MaskLen)]
    /\ ret = Throw
    /\ analysisMask = Null
    /\ AoiIdle /\ RunIdle

CombineStep ==
    /\ pc = "call"
    /\ ret' = combineMask(call.base, call.extra)
    /\ pc' = "done"
    /\ UNCHANGED <<call, aoiVars, runVars>>

NextMask == CombineStep

SpecMask == InitMask /\ [][NextMask]_vars

\* an operand, or all-ones of length n when it is absent
OrAllOnes(m, n) == IF m = Null THEN [i \in 1..n |-> 1] ELSE m

\* C7: combineMask is the pointwise AND of its operands, an absent operand
\* (base or user AOI mask) counting as all-ones: the result is then the other
\* operand.
C7_PointwiseAnd ==
    pc = "done" =>
        /\ ret.ok
        /\ call.extra = Null => ret.val = call.base
        /\ call.base = Null => ret.val = call.extra
        /\ (call.base # Null /\ call.extra # Null) =>
              \A i \in DOMAIN call.base :
                  ret.val[i] = (IF call.base[i] = 1 /\ call.extra[i] = 1 THEN 1 ELSE 0)

(***************************************************************************)
(* pointInRing / pointInPolygon.  Coordinates are whole numbers; the       *)
(* comparison lon < (xj-xi)*(lat-yi)/(yj-yi)+xi is made exactly by         *)
(* multiplying with yj-yi (non-zero whenever the first conjunct holds, so  *)
(* the 1e-12 guard never takes part).                                      *)
(***************************************************************************)
edgeCrosses(lon, lat, pi, pj) ==
    LET xi == pi[1]
        yi == pi[2]
        xj == pj[1]
        yj == pj[2]
        D == yj - yi
    IN  /\ (yi > lat) # (yj > lat)
        /\ IF D > 0 THEN (lon - xi) * D < (xj - xi) * (lat - yi)
                    ELSE (lon - xi) * D > (xj - xi) * (lat - yi)

\* for(let i=0,j=ring.length-1;i<ring.length;j=i++) ... inside = !inside
RECURSIVE ringParity(_, _, _, _, _)
ringParity(lon, lat, ring, i, inside) ==
    IF i > Len(ring) THEN inside
    ELSE LET j == IF i = 1 THEN Len(ring) ELSE i - 1
         IN  ringParity(lon, lat, ring, i + 1,
                        IF edgeCrosses(lon, lat, ring[i], ring[j]) THEN ~inside ELSE inside)

pointInRing(lon, lat, ring) == ringParity(lon, lat, ring, 1, FALSE)

pointInPolygon_outerOnly(lon, lat, poly) ==
    IF poly = Null \/ Len(poly) = 0 THEN FALSE ELSE pointInRing(lon, lat, poly[1])

pointInPolygon(lon, lat, poly) ==
    IF poly = Null \/ Len(poly) = 0 THEN FALSE
    ELSE IF ~pointInRing(lon, lat, poly[1]) THEN FALSE
    ELSE ~(\E h \in 2..Len(poly) : pointInRing(lon, lat, poly[h]))

(***************************************************************************)
(* SpecPip: pointInPolygon on rectangles with corners on the even          *)
(* coordinates of 0..PipMax, listed from any corner, in either direction,  *)
(* closed or not, with no hole or one rectangular hole, and every point    *)
(* of the whole-number grid.  The unit square is [0,2] x [0,2] here.       *)
(***************************************************************************)
EvenCoords == {c \in 0..PipMax : c % 2 = 0}
Rects == {r \in [x0 : EvenCoords, y0 : EvenCoords, x1 : EvenCoords, y1 : EvenCoords] :
            r.x0 < r.x1 /\ r.y0 < r.y1}

rectCorners(r) == << <<r.x0, r.y0>>, <<r.x1, r.y0>>, <<r.x1, r.y1>>, <<r.x0, r.y1>> >>

\* the ring of r starting at corner s, reversed or not, closed or not
rectRing(r, s, rev, closed) ==
    LET c == rectCorners(r)
        at(n) == IF rev THEN c[((s - n + 7) % 4) + 1] ELSE c[((s + n - 2) % 4) + 1]
        open == [n \in 1..4 |-> at(n)]
    IN  IF closed THEN Append(open, open[1]) ELSE open

OuterRings == {rectRing(r, s, rev, cl) : r \in Rects, s \in 1..4, rev \in BOOLEAN, cl \in BOOLEAN}
HoleRings == {rectRing(r, 1, FALSE, TRUE) : r \in Rects}
PipPolys == {<<o>> : o \in OuterRings} \cup {<<o, h>> : o \in OuterRings, h \in HoleRings}

InitPip ==
    /\ pc = "call"
    /\ call \in [lon : 0..PipMax, lat : 0..PipMax, poly : PipPolys]
    /\ ret = FALSE
    /\ analysisMask = Null
    /\ AoiIdle /\ RunIdle

PipStep ==
    /\ pc = "call"
    /\ ret' = pointInPolygon(call.lon, call.lat, call.poly)
    /\ pc' = "done"
    /\ UNCHANGED <<call, aoiVars, runVars>>

NextPip == PipStep

SpecPip == InitPip /\ [][NextPip]_vars

\* strictly inside / strictly outside the rectangle a ring runs around
RingXs(ring) == {ring[n][1] : n \in DOMAIN ring}
RingYs(ring) == {ring[n][2] : n \in DOMAIN ring}
StrictlyIn(lon, lat, ring) ==
    /\ \E a, b \in RingXs(ring) : a < lon /\ lon < b
    /\ \E a, b \in RingYs(ring) : a < lat /\ lat < b
StrictlyOut(lon, lat, ring) ==
    \/ \A a \in RingXs(ring) : lon < a
    \/ \A a \in RingXs(ring) : lon > a
    \/ \A a \in RingYs(ring) : lat < a
    \/ \A a \in RingYs(ring) : lat > a

\* C8: pointInPolygon is true for a point inside the outer ring and inside no
\* hole, and false for a point outside the outer ring or inside a hole.
C8_PointInPolygon ==
    pc = "done" =>
        LET lon == call.lon
            lat == call.lat
            outer == call.poly[1]
            holes == {call.poly[h] : h \in 2..Len(call.poly)}
        IN  /\ (StrictlyIn(lon, lat, outer) /\ \A h \in holes : StrictlyOut(lon, lat, h))
                  => ret = TRUE
            /\ (StrictlyOut(lon, lat, outer) \/ \E h \in holes : StrictlyIn(lon, lat, h))
                  => ret = FALSE
            /\ (call.poly = << <<<<0, 0>>, <<2, 0>>, <<2, 2>>, <<0, 2>>>> >>
                  /\ lon = 1 /\ lat = 1) => ret = TRUE
            /\ (call.poly = << <<<<0, 0>>, <<2, 0>>, <<2, 2>>, <<0, 2>>>> >>
                  /\ lon = 4 /\ lat = 4) => ret = FALSE

\* C8 witness: a point inside the outer ring and inside a hole is reported outside.
C8_Witness ==
    /\ pc = "done"
    /\ Len(call.poly) = 2
    /\ StrictlyIn(call.lon, call.lat, call.poly[1])
    /\ StrictlyIn(call.lon, call.lat, call.poly[2])
    /\ ret = FALSE

(***************************************************************************)
(* JSON values of the AOI text.  null is Null; an object is the record of  *)
(* its members type, geometry, coordinates and features, with "" or Null   *)
(* for a member it does not have.  Arrays are non-empty.                   *)
(***************************************************************************)
Obj(t, g, c, f) == [type |-> t, geometry |-> g, coordinates |-> c, features |-> f]
Geom(t, c) == [type |-> t, coordinates |-> c]
PolygonFeature(poly) == Obj("Feature", Geom("Polygon", poly), Null, Null)

\* JSON.parse(raw) and JSON.stringify(gj, null, 2)
JSONparse(text) == IF text.chars = "json" THEN Ok(text.val) ELSE Throw
JSONstringify(v) == [chars |-> "json", val |-> v]

\* one geometry g of pointInGeoJSON; g.coordinates.some of a missing member throws
geometryHit(lon, lat, g) ==
    IF g.type = "Polygon" THEN Ok(pointInPolygon(lon, lat, g.coordinates))
    ELSE IF g.type = "MultiPolygon" THEN
        IF g.coordinates = Null THEN Throw
        ELSE Ok(\E p \in DOMAIN g.coordinates : pointInPolygon(lon, lat, g.coordinates[p]))
    ELSE Ok(FALSE)

\* gj.features.some(f => ...), which stops at the first feature that hits
RECURSIVE someFeature(_, _, _, _)
someFeature(lon, lat, fs, i) ==
    IF i > Len(fs) THEN Ok(FALSE)
    ELSE LET gg == fs[i].geometry
             r == IF gg = Null THEN Ok(FALSE) ELSE geometryHit(lon, lat, gg)
         IN  IF ~r.ok THEN Throw
             ELSE IF r.val THEN Ok(TRUE)
             ELSE someFeature(lon, lat, fs, i + 1)

pointInGeoJSON(lon, lat, gj) ==
    IF gj = Null THEN Ok(FALSE)
    ELSE LET g == IF gj.type = "Feature" THEN gj.geometry
                  ELSE IF gj.type = "FeatureCollection" THEN Null ELSE gj
         IN  IF g # Null THEN geometryHit(lon, lat, g)
             ELSE IF gj.type = "FeatureCollection" THEN
                 IF gj.features = Null THEN Throw
                 ELSE someFeature(lon, lat, gj.features, 1)
             ELSE Ok(FALSE)

\* buildMaskFromGeoJSON(gj), reading state.grid (g) and state.baseMask (base);
\* state.grid.width of an absent grid is a TypeError
buildMaskFromGeoJSON(gj, g, base) ==
    IF g = Null THEN Throw
    ELSE LET W == g.width
             H == g.height
             cell(idx) ==
                 LET r == (idx - 1) \div W
                     c == (idx - 1) % W
                     lat == g.lat_max - r * gridDy(g)
                     lon == g.lon_min + c * gridDx(g)
                     hit == pointInGeoJSON(lon, lat, gj)
                 IN  IF base # Null /\ base[idx] = 0 THEN Ok(0)
                     ELSE IF ~hit.ok THEN Throw
                     ELSE Ok(IF hit.val THEN 1 ELSE 0)
         IN  IF \E idx \in 1..(W * H) : ~cell(idx).ok THEN Throw
             ELSE Ok([idx \in 1..(W * H) |-> cell(idx).val])

(***************************************************************************)
(* The AOI handlers.  They are synchronous, so each is a function of the   *)
(* AOI part st of the session state; state.grid and state.baseMask are     *)
(* read only.                                                              *)
(***************************************************************************)
AoiState ==
    [userAoi |-> userAoi, userMask |-> userMask, analysisMask |-> analysisMask,
     aoiText |-> aoiText, dirty |-> dirty, alerts |-> alerts]

alert(st) == [st EXCEPT !.alerts = @ + 1]
setDirty(st) == [st EXCEPT !.dirty = TRUE]

applyUserAoiFromText(st) ==
    IF st.aoiText.chars = "blank" THEN
        setDirty([st EXCEPT !.userAoi = Null, !.userMask = Null])
    ELSE LET gj == JSONparse(st.aoiText)
             s1 == [st EXCEPT !.userAoi = gj.val]
             um == buildMaskFromGeoJSON(gj.val, grid, baseMask)
             s2 == [s1 EXCEPT !.userMask = um.val]
             am == combineMask(baseMask, um.val)
         IN  IF ~gj.ok THEN alert(st)
             ELSE IF ~um.ok THEN alert(s1)
             ELSE IF ~am.ok THEN alert(s2)
             ELSE setDirty([s2 EXCEPT !.analysisMask = am.val])

\* a non-blank line of the points text: the number of its parts and
\* parseFloat of the first two
PLine(n, a, b) == [parts |-> n, a |-> a, b |-> b]
Abs(x) == IF x < 0 THEN 0 - x ELSE x
lineIsPoint(l) == l.parts >= 2 /\ isFinite(l.a) /\ isFinite(l.b)
linePoint(l) == IF Abs(l.a) > 90 /\ Abs(l.b) <= 90 THEN <<l.a, l.b>> ELSE <<l.b, l.a>>

RECURSIVE linePoints(_, _)
linePoints(lines, i) ==
    IF i > Len(lines) THEN << >>
    ELSE (IF lineIsPoint(lines[i]) THEN <<linePoint(lines[i])>> ELSE << >>)
             \o linePoints(lines, i + 1)

parsePointsToPolygonGeoJSON(lines) ==
    LET pts == linePoints(lines, 1)
    IN  IF Len(pts) < 3 THEN Throw
        ELSE Ok(PolygonFeature(<<IF pts[1] # pts[Len(pts)] THEN Append(pts, pts[1]) ELSE pts>>))

\* one listener of usePointsBtn
usePointsHandler(st, lines) ==
    IF Len(lines) = 0 THEN alert(st)
    ELSE LET gj == parsePointsToPolygonGeoJSON(lines)
         IN  IF ~gj.ok THEN alert(st)
             ELSE applyUserAoiFromText([st EXCEPT !.aoiText = JSONstringify(gj.val)])

\* a click runs every registered listener in turn
RECURSIVE runPointsHandlers(_, _, _)
runPointsHandlers(st, lines, n) ==
    IF n = 0 THEN st ELSE runPointsHandlers(usePointsHandler(st, lines), lines, n - 1)

bboxFinite(b) ==
    isFinite(b.latMin) /\ isFinite(b.latMax) /\ isFinite(b.lonMin) /\ isFinite(b.lonMax)
bboxFeature(b) ==
    PolygonFeature(<< << <<b.lonMin, b.latMin>>, <<b.lonMax, b.latMin>>, <<b.lonMax, b.latMax>>,
                         <<b.lonMin, b.latMax>>, <<b.lonMin, b.latMin>> >> >>)

(***************************************************************************)
(* SpecAoi: the AOI actions of a session on a 2 x 2 grid whose pixel       *)
(* centres are at longitudes 1, 3 and latitudes 3, 1.  The page's          *)
(* listeners are registered when the script loads, before the first        *)
(* loadSpeciesMetaAndInit has set state.grid and state.baseMask.  One      *)
(* loadSpeciesMetaAndInit runs at a time.                                  *)
(***************************************************************************)
AoiGrid == [width |-> 2, height |-> 2, lon_min |-> 1, lon_max |-> 3, lat_min |-> 1, lat_max |-> 3]
BaseMasks == {<<1, 1, 1, 1>>, <<1, 1, 0, 1>>}

AoiRing(r) == rectRing(r, 1, FALSE, TRUE)
WholeRect == [x0 |-> 0, y0 |-> 0, x1 |-> 4, y1 |-> 4]
WestRect == [x0 |-> 0, y0 |-> 0, x1 |-> 2, y1 |-> 4]
SouthRect == [x0 |-> 0, y0 |-> 0, x1 |-> 4, y1 |-> 2]
AoiRects == {WholeRect, WestRect, SouthRect}

\* parsable JSON that is no GeoJSON object: null, {"foo":1}, and objects
\* whose type is right but whose required member is missing
BadJson ==
    {Null, Obj("", Null, Null, Null), Obj("Feature", Null, Null, Null),
     Obj("Polygon", Null, Null, Null), Obj("MultiPolygon", Null, Null, Null),
     Obj("FeatureCollection", Null, Null, Null)}
GoodJson ==
    {PolygonFeature(<<AoiRing(WestRect)>>),
     Obj("Polygon", Null, <<AoiRing(SouthRect)>>, Null),
     Obj("MultiPolygon", Null, << <<AoiRing(WestRect)>>, <<AoiRing(SouthRect)>> >>, Null),
     Obj("Point", Null, <<1, 1, 0>>, Null),
     Obj("FeatureCollection", Null, Null, <<PolygonFeature(<<AoiRing(WholeRect)>>)>>)}
AoiTexts == {BlankText, GarbageText} \cup {JSONstringify(v) : v \in BadJson \cup GoodJson}

\* parseFloat of the four bbox fields
BboxInputs == [latMin : {NaN, 0}, latMax : {NaN, 4}, lonMin : {NaN, 0}, lonMax : {2, 4}]

\* point lists: "0,0", "0,4", "4,4" are lat,lon; "100,4" is lon,lat; "x,0" and
\* "7" are no points
PointsTexts ==
    LET A == PLine(2, 0, 0)
        B == PLine(2, 0, 4)
        C == PLine(2, 4, 4)
        E == PLine(2, 100, 4)
        X == PLine(2, NaN, 0)
        S == PLine(1, 7, NaN)
    IN  {<< >>, <<X>>, <<A, B>>, <<A, X, S, B>>, <<A, B, C>>, <<A, B, C, A>>,
         <<A, S, B, X, C>>, <<A, E, C>>}

FnIdle == pc = "idle" /\ call = Null /\ ret = Null

InitAoi == FnIdle /\ analysisMask = Null /\ AoiIdle /\ RunIdle

\* the handler's result becomes the session state
Commit(st) ==
    /\ st.alerts <= MaxAlerts
    /\ userAoi' = st.userAoi /\ userMask' = st.userMask /\ analysisMask' = st.analysisMask
    /\ aoiText' = st.aoiText /\ dirty' = st.dirty /\ alerts' = st.alerts

\* the user edits the AOI text area
TypeAoiText(t) ==
    /\ aoiText' = t
    /\ UNCHANGED <<baseMask, userAoi, userMask, analysisMask, dirty, alerts, grid,
                   pointsHandlers, load, fnVars, runVars>>

UseAoiClick ==
    /\ Commit(applyUserAoiFromText(AoiState))
    /\ UNCHANGED <<baseMask, grid, pointsHandlers, load, fnVars, runVars>>

AoiFileChange(t) ==
    /\ Commit(applyUserAoiFromText([AoiState EXCEPT !.aoiText = t]))
    /\ UNCHANGED <<baseMask, grid, pointsHandlers, load, fnVars, runVars>>

ClearAoiClick ==
    /\ Commit(setDirty([AoiState EXCEPT !.aoiText = BlankText, !.userAoi = Null,
                                        !.userMask = Null,
                                        !.analysisMask = combineMask(baseMask, Null).val]))
    /\ UNCHANGED <<baseMask, grid, pointsHandlers, load, fnVars, runVars>>

\* a bbox with finite fields also registers one more listener on usePointsBtn
UseBboxClick(b) ==
    /\ IF ~bboxFinite(b)
       THEN Commit(alert(AoiState)) /\ UNCHANGED pointsHandlers
       ELSE /\ pointsHandlers < MaxHandlers
            /\ pointsHandlers' = pointsHandlers + 1
            /\ Commit(applyUserAoiFromText(
                          [AoiState EXCEPT !.aoiText = JSONstringify(bboxFeature(b))]))
    /\ UNCHANGED <<baseMask, grid, load, fnVars, runVars>>

UsePointsClick(lines) ==
    /\ pointsHandlers > 0
    /\ Commit(runPointsHandlers(AoiState, lines, pointsHandlers))
    /\ UNCHANGED <<baseMask, grid, pointsHandlers, load, fnVars, runVars>>

\* L.Draw.Event.CREATED with the analysis AOI as the draw target
DrawCreated(r) ==
    /\ Commit(applyUserAoiFromText(
                  [AoiState EXCEPT !.aoiText = JSONstringify(PolygonFeature(<<AoiRing(r)>>))]))
    /\ UNCHANGED <<baseMask, grid, pointsHandlers, load, fnVars, runVars>>

\* loadSpeciesMetaAndInit up to the await of the mask fetch
LoadStart ==
    /\ load = "idle"
    /\ grid' = AoiGrid
    /\ load' = "mask"
    /\ UNCHANGED <<baseMask, userAoi, userMask, analysisMask, aoiText, dirty, alerts,
                   pointsHandlers, fnVars, runVars>>

\* the mask arrives: up to the await of filterTimeIdsByExistingLayer
LoadMaskOk(m) ==
    /\ load = "mask"
    /\ baseMask' = m
    /\ analysisMask' = combineMask(m, userMask).val
    /\ load' = "times"
    /\ UNCHANGED <<userAoi, userMask, aoiText, dirty, alerts, grid, pointsHandlers,
                   fnVars, runVars>>

\* the mask fetch fails: loadSpeciesMetaAndInit rejects
LoadMaskFail ==
    /\ load = "mask"
    /\ load' = "idle"
    /\ UNCHANGED <<baseMask, userAoi, userMask, analysisMask, aoiText, dirty, alerts, grid,
                   pointsHandlers, fnVars, runVars>>

\* the rest of loadSpeciesMetaAndInit
LoadFinish ==
    /\ load = "times"
    /\ analysisMask' = combineMask(baseMask, userMask).val
    /\ dirty' = TRUE
    /\ load' = "idle"
    /\ UNCHANGED <<baseMask, userAoi, userMask, aoiText, alerts, grid, pointsHandlers,
                   fnVars, runVars>>

NextAoi ==
    \/ \E t \in AoiTexts : TypeAoiText(t)
    \/ UseAoiClick
    \/ \E t \in AoiTexts : AoiFileChange(t)
    \/ ClearAoiClick
    \/ \E b \in BboxInputs : UseBboxClick(b)
    \/ \E lines \in PointsTexts : UsePointsClick(lines)
    \/ \E r \in AoiRects : DrawCreated(r)
    \/ LoadStart
    \/ \E m \in BaseMasks : LoadMaskOk(m)
    \/ LoadMaskFail
    \/ LoadFinish

SpecAoi == InitAoi /\ [][NextAoi]_vars

\* a GeoJSON geometry, feature or feature collection: the type with the
\* member it requires
IsGeoJSON(v) ==
    /\ v # Null
    /\ \/ v.type = "Feature" /\ v.geometry # Null
       \/ v.type \in {"Polygon", "MultiPolygon", "Point"} /\ v.coordinates # Null
       \/ v.type = "FeatureCollection" /\ v.features # Null

MalformedText(t) == t.chars = "garbage" \/ (t.chars = "json" /\ ~IsGeoJSON(t.val))

\* an AOI action whose input is malformed
MalformedAoiAction ==
    \/ MalformedText(aoiText) /\ UseAoiClick
    \/ \E t \in AoiTexts : MalformedText(t) /\ AoiFileChange(t)
    \/ \E b \in BboxInputs : ~bboxFinite(b) /\ UseBboxClick(b)
    \/ \E lines \in PointsTexts : Len(linePoints(lines, 1)) < 3 /\ UsePointsClick(lines)

\* the grid and the server mask of the session have been loaded
SessionLoaded == grid # Null /\ baseMask # Null

\* C9: applying a malformed AOI (text that is not valid GeoJSON, a point list
\* with fewer than 3 valid points, a bbox with a non-finite field) is rejected
\* with an alert and leaves state.userAoi, state.userMask and
\* state.analysisMask as they were before the action.
C9_MalformedRejected ==
    [][(SessionLoaded /\ MalformedAoiAction) =>
          (alerts' > alerts /\ UNCHANGED <<userAoi, userMask, analysisMask>>)]_vars

(***************************************************************************)
(* Colour scale and percentiles: computeAOIBounds, computeScaleAndPercentiles *)
(* and percentileOfValue.  An AOI is Null or the bounds                    *)
(* [south, west, north, east] of an L.latLngBounds; contains is inclusive. *)
(***************************************************************************)
Bounds(s, w, n, e) == [south |-> s, west |-> w, north |-> n, east |-> e]

\* mode "full": L.latLngBounds([g.lat_min, g.lon_min],[g.lat_max, g.lon_max]);
\* mode "draw": state.aoiBounds || null
computeAOIBounds(mode, g, aoiBounds) ==
    CASE mode = "full" -> Bounds(g.lat_min, g.lon_min, g.lat_max, g.lon_max)
      [] mode = "draw" -> aoiBounds
      [] OTHER         -> Null

\* aoi && !aoi.contains([lat,lon]) decides the skip
aoiKeeps(aoi, lat, lon) ==
    aoi = Null \/ (/\ aoi.south <= lat /\ lat <= aoi.north
                   /\ aoi.west <= lon /\ lon <= aoi.east)

\* the loops over y and x: the finite in-AOI values in scan order
RECURSIVE scanVals(_, _, _, _)
scanVals(i, arr01, g, aoi) ==
    IF i >= g.width * g.height THEN << >>
    ELSE LET y == i \div g.width
             x == i % g.width
             lat == g.lat_max - y * gridDy(g)
             lon == g.lon_min + x * gridDx(g)
             v == arr01[i + 1]
         IN  (IF aoiKeeps(aoi, lat, lon) /\ isFinite(v) THEN <<v>> ELSE << >>)
                 \o scanVals(i + 1, arr01, g, aoi)

\* Math.min(vals.length-1, Math.max(0, Math.floor(q*(vals.length-1)))), q in percent
pickIndex_ceil(q, n) == Min2(n - 1, Max2(0, (q * (n - 1) + 99) \div 100))
pickIndex(q, n) == Min2(n - 1, Max2(0, (q * (n - 1)) \div 100))

\* state._distVals, state.scaleMin, state.scaleMax after the call
computeScaleAndPercentiles(arr01, g, aoi) ==
    LET pick(vals) ==
            LET n == Len(vals)
            IN  IF n = 0 THEN [distVals |-> vals, scaleMin |-> 0, scaleMax |-> One]
                ELSE [distVals |-> vals,
                      scaleMin |-> vals[pickIndex(2, n) + 1],
                      scaleMax |-> vals[pickIndex(98, n) + 1]]
    IN  CHOOSE out \in {pick(vals) : vals \in {sortAsc(scanVals(0, arr01, g, aoi))}} : TRUE

\* while(lo<hi){ mid=(lo+hi)>>1; if(a[mid] <= v) lo=mid+1; else hi=mid; }
searchGoesRight_strict(a, mid, v) == a[mid + 1] < v
searchGoesRight(a, mid, v) == a[mid + 1] <= v

RECURSIVE upperBound(_, _, _, _)
upperBound(a, v, lo, hi) ==
    IF lo >= hi THEN lo
    ELSE LET mid == (lo + hi) \div 2
         IN  IF searchGoesRight(a, mid, v) THEN upperBound(a, v, mid + 1, hi)
             ELSE upperBound(a, v, lo, mid)

\* lo / a.length as the pair [num, den]; null for no distribution or non-finite v
percentileOfValue(distVals, v) ==
    LET a == IF distVals = Null THEN << >> ELSE distVals
    IN  IF Len(a) = 0 \/ ~isFinite(v) THEN Null
        ELSE [num |-> upperBound(a, v, 0, Len(a)), den |-> Len(a)]

\* computeScaleAndPercentiles(arrAgg) as computeAndRender calls it: on
\* state.grid, with aoiMode "draw" and no box drawn (state.aoiBounds is null)
scaleOf(arrAgg) ==
    computeScaleAndPercentiles(arrAgg, grid, computeAOIBounds("draw", grid, Null))

(***************************************************************************)
(* The analysis pipeline: fetchBin, computeAndRender, getConfAggregated    *)
(* and the Analyze handler.  A layer file is named by its URL, the layer   *)
(* key and the time; what the server holds under a URL does not change, so *)
(* the cache is modelled by the set of URLs it holds.                      *)
(***************************************************************************)
Url(key, t) == [key |-> key, t |-> t]

\* the content of the layer files of the run
ServerData(u) ==
    [i \in 1..NPix |->
        CASE u.key = "conf" -> One
          [] u.key = "qc_chl" -> (IF u.t = 1 THEN 1 ELSE 0)
          [] OTHER -> (IF u.t % 2 = 1 THEN One ELSE 0)]

\* loadLayerForTime: the layer key of the selected map
layerKey(mapKey) ==
    CASE mapKey = "pcatch" -> "pcatch_model"
      [] mapKey = "phab" -> "phab_scoring"
      [] mapKey = "pops" -> "pops"
      [] mapKey = "agree" -> "agree"
      [] mapKey = "spread" -> "spread"
      [] mapKey = "conf" -> "conf"
      [] OTHER -> "pcatch_model"

urlsOf(key, sel) == {Url(key, sel[n]) : n \in DOMAIN sel}
arraysOf(key, sel) == [n \in DOMAIN sel |-> ServerData(Url(key, sel[n]))]

\* fetchBin: state.cache after the response to a fetch of url
cacheAfterFetch_always(c, url, ok) == c \cup {url}

cacheAfterFetch(c, url, ok) == IF ok THEN c \cup {url} ELSE c

\* fetchBin: the URLs that go to the network (the others are served by the cache)
toFetch(urls, c) == {u \in urls : u \notin c}

\* conf[i] * qcMean[i]
timesQc(conf, qcArrs, mask) ==
    [i \in DOMAIN conf |->
        LET s == Cardinality({t \in DOMAIN qcArrs : qcArrs[t][i] > 0})
            k == Len(qcArrs)
            qcMean == IF pixelMasked(mask, i) THEN 0
                      ELSE IF k > 0 THEN (s * One) \div k ELSE One
        IN  IF conf[i] = NaN THEN NaN ELSE (conf[i] * qcMean) \div One]

\* an invocation that has ended: its locals are gone, the fetches it still
\* has in flight go on
ended(r, outcome) ==
    [sel |-> << >>, mapKey |-> "", phase |-> outcome, pending |-> r.pending,
     arrAgg |-> Null, conf |-> Null]

\* state.lastComputed = {arrAgg, confAgg, timeIsos}; req names the invocation
committed(id, r, confAgg) ==
    [req |-> id, arrAgg |-> r.arrAgg, confAgg |-> confAgg, timeIsos |-> r.sel]

\* computeAndRender from the point where the awaited fetches of invocation
\* id have all arrived, up to its next await on the network or its end.
\* method is aggSelect's value, q is state.qcOn and mask is
\* state.analysisMask at that moment.  lc is the value committed to
\* state.lastComputed, Null when there is none.
RECURSIVE resume(_, _, _, _, _, _)
resume(id, r, c, method, q, mask) ==
    IF r.pending # {} \/ r.phase \in {"done", "failed"}
    THEN [r |-> r, lc |-> Null, sc |-> Null]
    ELSE IF r.phase = "layers" THEN
        LET aggMethod == IF r.mapKey = "conf" THEN "mean" ELSE method
            rest(arrAgg, sc) ==
                LET r1 == [r EXCEPT !.arrAgg = arrAgg]
                IN  IF r.mapKey = "conf"
                    THEN [r |-> ended(r, "done"),
                          lc |-> committed(id, r1, [i \in DOMAIN arrAgg |->
                                                       IF isFinite(arrAgg[i]) THEN One ELSE 0]),
                          sc |-> sc]
                    ELSE [resume(id, [r1 EXCEPT !.phase = "conf",
                                                !.pending = toFetch(urlsOf("conf", r.sel), c)],
                                 c, method, q, mask) EXCEPT !.sc = sc]
        IN  CHOOSE out \in
                UNION {{rest(arrAgg, sc) : sc \in {scaleOf(arrAgg)}} :
                          arrAgg \in {aggregatePerPixel(arraysOf(layerKey(r.mapKey), r.sel),
                                                        aggMethod, mask)}} : TRUE
    ELSE IF r.phase = "conf" THEN
        LET conf == aggregatePerPixel(arraysOf("conf", r.sel), "mean", mask)
            r1 == [r EXCEPT !.conf = conf]
        IN  IF q
            THEN resume(id, [r1 EXCEPT !.phase = "qc",
                                       !.pending = toFetch(urlsOf("qc_chl", r.sel), c)],
                        c, method, q, mask)
            ELSE [r |-> ended(r, "done"), lc |-> committed(id, r1, conf), sc |-> Null]
    ELSE [r |-> ended(r, "done"),
          lc |-> committed(id, r, timesQc(r.conf, arraysOf("qc_chl", r.sel), mask)),
          sc |-> Null]

(***************************************************************************)
(* Spec: Analyze clicks on a loaded session of two timestamps and the      *)
(* server's responses to the fetches they start, in any order.  Every      *)
(* fetch can succeed or fail (a network error or a non-success status).    *)
(***************************************************************************)
\* getSelectedTimes: one timestamp, or the timestamps from a to b
RunTimes == <<1, 2>>      \* state.times of the session
Selections ==
    {[n \in 1..(ab[2] - ab[1] + 1) |-> RunTimes[ab[1] + n - 1]] :
        ab \in {x \in (DOMAIN RunTimes) \X (DOMAIN RunTimes) : x[1] <= x[2]}}
MapKeys == {"pcatch", "conf"}
AggChoices == {"mean", "max"}

\* the layer files an analysis of the model can ask for
FetchUrls == {Url(k, t) : k \in {layerKey(m) : m \in MapKeys} \cup {"conf", "qc_chl"},
                          t \in Range(RunTimes)}

Init ==
    /\ FnIdle
    /\ grid = Grid(NPix, 1)
    /\ baseMask = [i \in 1..NPix |-> 1]
    /\ analysisMask = baseMask
    /\ userAoi = Null /\ userMask = Null /\ aoiText = BlankText
    /\ dirty = TRUE /\ alerts = 0 /\ pointsHandlers = 0 /\ load = "idle"
    /\ RunIdle

\* computeScaleAndPercentiles assigns state._distVals, scaleMin and scaleMax
storeScale(old, sc) == IF sc = Null THEN old ELSE sc

\* state.lastComputed = {...}: an invocation that reaches its end stores its
\* result, whatever is there
storeLastComputed_newestWins(old, lc) ==
    IF lc = Null \/ (old # Null /\ old.req > lc.req) THEN old ELSE lc
storeLastComputed(old, lc) == IF lc = Null THEN old ELSE lc

\* finally{ busy = false; state.timer = setTimeout(tick, 900); } of the tick
\* that awaited an invocation which has just ended, rq being the invocations
playAfterAwait(p, rq) ==
    LET over == {c \in DOMAIN p.chains :
                    /\ p.chains[c].at = "run"
                    /\ rq[p.chains[c].req].phase \in {"done", "failed"}}
    IN  IF over = {} THEN p
        ELSE LET c == CHOOSE x \in over : TRUE
             IN  [p EXCEPT !.chains[c] = [@ EXCEPT !.busy = FALSE, !.at = "wait",
                                                   !.ms = PlayPeriod],
                           !.timer = [chain |-> c]]

\* the Analyze handler up to the first await of computeAndRender on the network
AnalyzeClick(sel, mapKey, method) ==
    /\ Len(reqs) < MaxReqs
    /\ dirty' = FALSE
    /\ toasts' = [toasts EXCEPT !.ok = @ + 1]
    /\ LET id == Len(reqs) + 1
           r0 == [sel |-> sel, mapKey |-> mapKey, phase |-> "layers",
                  pending |-> toFetch(urlsOf(layerKey(mapKey), sel), cache),
                  arrAgg |-> Null, conf |-> Null]
       IN  \E out \in {resume(id, r0, cache, method, qcOn, analysisMask)} :
               /\ reqs' = Append(reqs, out.r)
               /\ lastComputed' = storeLastComputed(lastComputed, out.lc)
               /\ scale' = storeScale(scale, out.sc)
    /\ UNCHANGED <<cache, qcOn, baseMask, userAoi, userMask, analysisMask, aoiText, alerts,
                   grid, pointsHandlers, load, fnVars, uiVars, xVars>>

\* a fetch of invocation i is answered with success: fetchBin stores and
\* returns the array, and the invocation goes on when it was the last one
\* awaited
FetchOk(i, u, method) ==
    /\ i \in DOMAIN reqs
    /\ u \in reqs[i].pending
    /\ cache' = cacheAfterFetch(cache, u, TRUE)
    /\ LET r1 == [reqs[i] EXCEPT !.pending = @ \ {u}]
       IN  \E out \in {resume(i, r1, cache', method, qcOn, analysisMask)} :
               /\ reqs' = [reqs EXCEPT ![i] = out.r]
               /\ lastComputed' = storeLastComputed(lastComputed, out.lc)
               /\ scale' = storeScale(scale, out.sc)
    /\ play' = playAfterAwait(play, reqs')
    /\ UNCHANGED <<toasts, qcOn, aoiVars, fnVars, uiVars, fb>>

\* a fetch of invocation i fails: fetchBin throws, Promise.all rejects once,
\* computeAndRender rejects and the Analyze handler raises its warning
FetchFail(i, u) ==
    /\ i \in DOMAIN reqs
    /\ u \in reqs[i].pending
    /\ cache' = cacheAfterFetch(cache, u, FALSE)
    /\ reqs' = [reqs EXCEPT ![i] = ended([@ EXCEPT !.pending = @ \ {u}], "failed")]
    /\ toasts' = IF reqs[i].phase = "failed" THEN toasts
                 ELSE [toasts EXCEPT !.warn = @ + 1]
    /\ play' = playAfterAwait(play, reqs')
    /\ UNCHANGED <<lastComputed, qcOn, aoiVars, fnVars, uiVars, scale, fb>>

\* qcToggle change
QcToggle ==
    /\ qcOn' = ~qcOn
    /\ dirty' = TRUE
    /\ UNCHANGED <<cache, lastComputed, reqs, toasts, baseMask, userAoi, userMask,
                   analysisMask, aoiText, alerts, grid, pointsHandlers, load, fnVars, uiVars,
                   scale, xVars>>

Next ==
    \/ \E sel \in Selections, mapKey \in MapKeys, method \in AggChoices :
          AnalyzeClick(sel, mapKey, method)
    \/ \E i \in 1..MaxReqs, u \in FetchUrls, method \in AggChoices : FetchOk(i, u, method)
    \/ \E i \in 1..MaxReqs, u \in FetchUrls : FetchFail(i, u)
    \/ QcToggle

Spec == Init /\ [][Next]_vars

\* the invocations that failed
FailedReqs == {i \in DOMAIN reqs : reqs[i].phase = "failed"}

\* a step in which a fetch of an analysis fails
FetchFailStep ==
    \E i \in 1..MaxReqs, u \in FetchUrls : FetchFail(i, u)

\* C10: when a layer fetch of an analysis fails, the whole computeAndRender
\* invocation fails: the step leaves state.lastComputed and the fetch cache
\* as they were, state.lastComputed is never the result of a failed
\* invocation (it is absent or the result of an invocation that ran to its
\* end), and the Analyze handler has raised one warning per failed
\* invocation, the session staying usable.
C10_FailedAnalysis ==
    /\ [](/\ lastComputed # Null =>
                /\ lastComputed.req \notin FailedReqs
                /\ reqs[lastComputed.req].phase = "done"
          /\ toasts.warn = Cardinality(FailedReqs))
    /\ [][FetchFailStep => (cache' = cache /\ lastComputed' = lastComputed)]_vars

\* C10 witness: an analysis failed on its first answer, nothing is cached or
\* committed by it, and a later Analyze ran to its end and was committed.
C10_Witness ==
    /\ Len(reqs) = 2
    /\ reqs[1].phase = "failed" /\ reqs[1].pending = {}
    /\ reqs[2].phase = "done"
    /\ lastComputed # Null /\ lastComputed.req = 2
    /\ \A t \in Range(RunTimes) : Url("conf", t) \in cache
    /\ toasts = [ok |-> 2, warn |-> 1]

(***************************************************************************)
(* renderClusters(infos).  A cluster info carries the fields the scoring   *)
(* and the drawing read: id, mean, mx, lnArea = ln(1+max(0,area)),         *)
(* polyLen = poly.length and nTop = top.length.  Weights are the triple    *)
(* a/den, b/den, c/den, so den * score is an integer.                      *)
(***************************************************************************)
Info(id, mean, mx, lnArea, polyLen, nTop) ==
    [id |-> id, mean |-> mean, mx |-> mx, lnArea |-> lnArea, polyLen |-> polyLen, nTop |-> nTop]

\* info.score = w.a*info.mean + w.b*info.mx + w.c*Math.log(1+Math.max(0,info.area||0)),
\* times w.den
scoreOf(info, w) == w.a * info.mean + w.b * info.mx + w.c * info.lnArea

\* infos.sort((a,b)=>b.score-a.score), a stable sort
scoreBefore_orEqual(x, y, w) == scoreOf(x, w) >= scoreOf(y, w)
scoreBefore(x, y, w) == scoreOf(x, w) > scoreOf(y, w)

RECURSIVE insertByScoreDesc(_, _, _)
insertByScoreDesc(x, s, w) ==
    IF s = << >> THEN <<x>>
    ELSE IF scoreBefore(x, Head(s), w) THEN <<x>> \o s
    ELSE <<Head(s)>> \o insertByScoreDesc(x, Tail(s), w)

RECURSIVE sortByScoreDesc(_, _)
sortByScoreDesc(s, w) ==
    IF s = << >> THEN << >>
    ELSE insertByScoreDesc(s[Len(s)], sortByScoreDesc(SubSeq(s, 1, Len(s) - 1), w), w)

\* the infos that get a polygon: if(!info.poly || info.poly.length<3) return;
drawn(infos) == SelectSeq(infos, LAMBDA info : info.polyLen >= 3)

\* renderClusters: the sorted infos, bestId = infos[0]?.id, the polygons put on the map.
\* clusterTops is declared nowhere in app.js: unless the page binds that name
\* (topsBound), reading it at L.layerGroup(clusterTops) is a ReferenceError
\* raised before state.clusters = infos.
renderClusters(infos, w, topsBound, clusters) ==
    LET sorted == sortByScoreDesc(infos, w)
        bestId == IF Len(sorted) = 0 THEN Null ELSE sorted[1].id
        \* clusterTops.push(mk) of the first drawn cluster that has top points
        throwsInLoop == ~topsBound /\ \E j \in DOMAIN drawn(sorted) : drawn(sorted)[j].nTop > 0
    IN  [ok       |-> topsBound,
         sorted   |-> sorted,
         bestId   |-> bestId,
         polys    |-> IF throwsInLoop THEN << >>
                      ELSE [j \in DOMAIN drawn(sorted) |-> drawn(sorted)[j].id],
         clusters |-> IF topsBound THEN sorted ELSE clusters]

\* buildClustersContour / buildClustersDBSCAN around renderClusters:
\* if(!state.lastComputed?.arrAgg){ toast("No data yet"); return; }
buildClusters(hasData, infos, w, topsBound, clusters) ==
    IF ~hasData
    THEN [ok |-> TRUE, sorted |-> << >>, bestId |-> Null, polys |-> << >>, clusters |-> clusters]
    ELSE renderClusters(infos, w, topsBound, clusters)

\* const N = arrs[0].length: a TypeError when the layer list is empty
aggregateCall(arrs, method, mask) ==
    IF Len(arrs) = 0 THEN Throw ELSE Ok(aggregatePerPixel(arrs, method, mask))

(***************************************************************************)
(* SpecShape: one call of aggregatePerPixel, of computeScaleAndPercentiles *)
(* followed by percentileOfValue, or of a cluster build, on every input    *)
(* shape up to the bounds.                                                 *)
(***************************************************************************)
ShapeStacks == UNION {[1..t -> Layers] : t \in 0..2}

ScaleGrid == Grid(2, 2)
ScaleVals == {NaN, 0, One \div 2, One}
\* a W x 2 grid holding the values 2W-1 .. 0 in scan order
RampGrid(w) == Grid(w, 2)
RampArr(w) == [i \in 1..(2 * w) |-> 2 * w - i]
ScaleAois == {Null, Bounds(20, 50, 20, 51), Bounds(0, 0, 1, 1)}

InfoChoices(shapes) ==
    {Info(0, mean, mx, la, sh[1], sh[2]) : mean \in {1, 2}, mx \in {2, 3}, la \in {0, 35}, sh \in shapes}
\* the builders number the clusters 0, 1, ... in discovery order
InfoListsOf(shapes) ==
    UNION {{[j \in 1..n |-> [f[j] EXCEPT !.id = j - 1]] : f \in [1..n -> InfoChoices(shapes)]} :
              n \in 0..MaxInfos}
\* <<poly.length, top.length>> of a cluster: a polygon with top points, a
\* polygon without, a degenerate outline
InfoLists == InfoListsOf({<<4, 1>>, <<4, 0>>, <<0, 1>>})
WeightChoices == {applyWeightPreset("default"), applyWeightPreset("wide"),
                  setWeights(0, 0, 100), setWeights(0, 0, 0)}

ShapeCalls ==
    {[fn |-> "aggregate", arrs |-> arrs, method |-> method, mask |-> mask] :
        arrs \in ShapeStacks, method \in AggMethods, mask \in Masks(NPix)}
    \cup
    {[fn |-> "scale", grid |-> ScaleGrid, arr01 |-> arr, mode |-> mode, aoiBounds |-> ab,
      v |-> v, v2 |-> v2] :
        arr \in [1..4 -> ScaleVals], mode \in {"full", "draw"}, ab \in ScaleAois,
        v \in {NaN, 0, One \div 2}, v2 \in {One \div 4, One \div 2, One}}
    \cup
    UNION {{[fn |-> "scale", grid |-> RampGrid(w), arr01 |-> RampArr(w), mode |-> mode,
             aoiBounds |-> Null, v |-> v, v2 |-> 2 * w] : mode \in {"full", "draw"}, v \in {NaN, 0, w}} :
           w \in 2..MaxRamp}
    \cup
    {[fn |-> "clusters", hasData |-> hd, infos |-> infos, w |-> w, topsBound |-> tb] :
        hd \in BOOLEAN, infos \in InfoLists, w \in WeightChoices, tb \in BOOLEAN}

InitShape ==
    /\ pc = "call"
    /\ call \in ShapeCalls
    /\ ret = << >>
    /\ analysisMask = Null
    /\ AoiIdle /\ RunIdle

AggregateCallStep ==
    /\ pc = "call" /\ call.fn = "aggregate"
    /\ ret' = aggregateCall(call.arrs, call.method, call.mask)
    /\ pc' = "done"
    /\ UNCHANGED <<call, aoiVars, runVars>>

ScaleStep ==
    /\ pc = "call" /\ call.fn = "scale"
    /\ LET sc == computeScaleAndPercentiles(call.arr01, call.grid,
                     computeAOIBounds(call.mode, call.grid, call.aoiBounds))
       IN  ret' = [ok |-> TRUE, scale |-> sc,
                   pct  |-> percentileOfValue(sc.distVals, call.v),
                   pct2 |-> percentileOfValue(sc.distVals, call.v2)]
    /\ pc' = "done"
    /\ UNCHANGED <<call, aoiVars, runVars>>

ClustersStep ==
    /\ pc = "call" /\ call.fn = "clusters"
    /\ ret' = buildClusters(call.hasData, call.infos, call.w, call.topsBound, Null)
    /\ pc' = "done"
    /\ UNCHANGED <<call, aoiVars, runVars>>

NextShape == AggregateCallStep \/ ScaleStep \/ ClustersStep

SpecShape == InitShape /\ [][NextShape]_vars

\* C11: aggregatePerPixel, computeScaleAndPercentiles/percentileOfValue and a
\* cluster build run to completion for every input shape (an empty layer list
\* included), and a cluster build over computed data stores its cluster list
\* in state.clusters.
C11_NeverThrows ==
    pc = "done" =>
        /\ ret.ok
        /\ (call.fn = "clusters" /\ call.hasData) => ret.clusters = ret.sorted

(***************************************************************************)
(* What follows an aggregation: renderOverlay, topKFromArray and the two   *)
(* cluster builders reading state.lastComputed.arrAgg.                     *)
(***************************************************************************)
\* const ok = Number.isFinite(v);
overlayOk_any(v) == TRUE
overlayOk(v) == isFinite(v)

\* a = ok ? Math.round(255 * Math.min(1, Math.max(0, conf01[iSrc] ?? 1))) : 0;
\* a NaN confidence gives NaN, which the Uint8ClampedArray stores as 0
overlayAlpha(v, conf) ==
    IF ~overlayOk(v) THEN 0
    ELSE IF conf = NaN THEN 0
    ELSE LET c == Min2(One, Max2(0, conf))
         IN  (2 * 255 * c + One) \div (2 * One)

\* data[p+3] of every pixel; conf01[iSrc] ?? 1 for an absent confidence
renderOverlay(arr01, conf01) ==
    [i \in DOMAIN arr01 |->
        overlayAlpha(arr01[i], IF i \in DOMAIN conf01 THEN conf01[i] ELSE One)]

\* the raster in percent, the unit of the cluster threshold
toPercent(arr) == [i \in DOMAIN arr |-> IF isFinite(arr[i]) THEN (100 * arr[i]) \div One ELSE NaN]

\* buildClustersDBSCAN: pts in scan order, if(Number.isFinite(v) && v>=thrVal) pts.push(..)
RECURSIVE scanCandidates(_, _, _, _)
scanCandidates(i, arr, g, thrPct) ==
    IF i >= g.width * g.height THEN << >>
    ELSE LET y == i \div g.width
             x == i % g.width
             v == arr[i + 1]
         IN  (IF isForeground(v, thrPct)
              THEN <<[lat |-> g.lat_max - y * gridDy(g), lon |-> g.lon_min + x * gridDx(g),
                      v |-> v, idx |-> i]>>
              ELSE << >>) \o scanCandidates(i + 1, arr, g, thrPct)

\* pts.sort((a,b)=>b.v-a.v); const pts2 = pts.slice(0, 2500);
dbscanCandidates(arr, g, thrText) ==
    LET pts == sortByVDesc(scanCandidates(0, arr, g, thrPctOf(thrText)))
    IN  SubSeq(pts, 1, Min2(Len(pts), MaxClusterPts))

\* const epsKm = Math.max(1, Number($("clusterEpsKm")?.value || 25));
epsKmOf(text) == Max2(1, IF text = "115" THEN 115 ELSE IF text = "160" THEN 160 ELSE 25)

\* the candidates and the member lists (indices into the candidates) of dbscan
buildClustersDBSCAN(arr, g, thrText, epsText, minPtsText) ==
    LET pts2 == dbscanCandidates(arr, g, thrText)
    IN  [pts |-> pts2,
         clusters |-> dbscan(pts2, epsKmOf(epsText), minCellsOf(minPtsText)).clusters]

(***************************************************************************)
(* SpecDown: one layer on a 2 x 2 grid is aggregated under a mask and the  *)
(* result is drawn, ranked and clustered.                                  *)
(***************************************************************************)
DownGrid == CGrid(2, 2)
\* a grid whose cell centres are on the degrees of the haversine table
DbGrid == [width |-> 2, height |-> 2, lon_min |-> 0, lon_max |-> 1, lat_min |-> 0, lat_max |-> 1]
DownLayers == [1..4 -> PixVals]
DownConfs == {<<One, One, One, One>>, <<0, One \div 2, One, NaN>>, << >>}

InitDown ==
    /\ pc = "call"
    /\ \E layer \in DownLayers, mask \in Masks(4), method \in {"mean", "max"},
          conf \in DownConfs, thr \in {"", "0"}, mp \in {"1", "3"} :
          call = [arrs |-> <<layer>>, mask |-> mask, method |-> method, conf |-> conf,
                  thrText |-> thr, minPtsText |-> mp, epsText |-> "115"]
    /\ ret = << >>
    /\ analysisMask = Null
    /\ AoiIdle /\ RunIdle

DownStep ==
    /\ pc = "call"
    /\ LET arrAgg == aggregatePerPixel(call.arrs, call.method, call.mask)
       IN  ret' = [arrAgg  |-> arrAgg,
                   alpha   |-> renderOverlay(arrAgg, call.conf),
                   top     |-> topKFromArray(arrAgg, 100, DownGrid),
                   contour |-> buildClustersContour(toPercent(arrAgg), DownGrid,
                                                    call.thrText, call.minPtsText),
                   db      |-> buildClustersDBSCAN(toPercent(arrAgg), DbGrid, call.thrText,
                                                   call.epsText, call.minPtsText)]
    /\ pc' = "done"
    /\ UNCHANGED <<call, aoiVars, runVars>>

NextDown == DownStep

SpecDown == InitDown /\ [][NextDown]_vars

\* the 0-based cells of the NaN pixels of the aggregate
NaNCells == {i \in 0..3 : ret.arrAgg[i + 1] = NaN}
TopCells == {PointIndex(ret.top[r], DownGrid) : r \in DOMAIN ret.top}
ContourCells == UNION {Range(ret.contour[c].cells) : c \in DOMAIN ret.contour}
CandidateCells == {ret.db.pts[j].idx : j \in DOMAIN ret.db.pts}
DbMembers == UNION {Range(ret.db.clusters[c]) : c \in DOMAIN ret.db.clusters}

\* C12: a pixel whose aggregate is NaN is drawn with alpha 0, is not among the
\* points of topKFromArray, and is neither a candidate nor a member of a
\* cluster of either builder; with every pixel masked the Top-K list and both
\* cluster lists are empty.
C12_NaNDropped ==
    pc = "done" =>
        /\ \A i \in NaNCells :
              /\ ret.alpha[i + 1] = 0
              /\ i \notin TopCells
              /\ i \notin ContourCells
              /\ i \notin CandidateCells
        /\ DbMembers \subseteq DOMAIN ret.db.pts
        /\ (\A i \in 1..4 : pixelMasked(call.mask, i)) =>
              /\ NaNCells = 0..3
              /\ ret.top = << >> /\ ret.contour = << >> /\ ret.db.clusters = << >>

\* a masked pixel next to pixels that are drawn, ranked and clustered
C12_Witness ==
    /\ pc = "done"
    /\ \E i \in NaNCells : pixelMasked(call.mask, i + 1) /\ isFinite(call.arrs[1][i + 1])
    /\ \E i \in 1..4 : ret.alpha[i] > 0
    /\ ret.top # << >> /\ ret.contour # << >> /\ ret.db.clusters # << >>

(***************************************************************************)
(* SpecMap: one Analyze click on the probability, agreement or confidence  *)
(* map of the loaded session, and the server's responses.                  *)
(***************************************************************************)
ShownMaps == {"pcatch", "agree", "conf"}
MapUrls == {Url(k, t) : k \in {layerKey(mk) : mk \in ShownMaps} \cup {"conf", "qc_chl"},
                        t \in Range(RunTimes)}

AnalyzeOnce(sel, mapKey, method) == reqs = << >> /\ AnalyzeClick(sel, mapKey, method)

NextMap ==
    \/ \E sel \in Selections, mapKey \in ShownMaps, method \in AggChoices :
          AnalyzeOnce(sel, mapKey, method)
    \/ \E i \in 1..MaxReqs, u \in MapUrls, method \in AggChoices : FetchOk(i, u, method)
    \/ \E i \in 1..MaxReqs, u \in MapUrls : FetchFail(i, u)
    \/ QcToggle

SpecMap == Init /\ [][NextMap]_vars

\* the mean of the layers of key over the selected times
MeanOf(key, sel) == aggregatePerPixel(arraysOf(key, sel), "mean", analysisMask)

\* invocation i passes, in this step, the aggregation that follows phase
LeavesPhase(i, phase) ==
    /\ i \in DOMAIN reqs /\ reqs[i].phase = phase
    /\ reqs'[i].phase \notin {phase, "failed"}

\* C13: when the shown map is the confidence or the agreement map its layers
\* are reduced with mean, and so are the layers of the companion confidence,
\* whatever method is selected.
C13_AlwaysMean ==
    [][\A i \in 1..MaxReqs :
          /\ (LeavesPhase(i, "layers") /\ reqs[i].mapKey \in {"conf", "agree"}) =>
                LET mean == MeanOf(layerKey(reqs[i].mapKey), reqs[i].sel)
                IN  IF reqs'[i].phase = "done"
                    THEN lastComputed'.req = i /\ lastComputed'.arrAgg = mean
                    ELSE reqs'[i].arrAgg = mean
          /\ (LeavesPhase(i, "conf") /\ reqs'[i].phase = "qc") =>
                reqs'[i].conf = MeanOf("conf", reqs[i].sel)]_vars

\* the cells of the call's grid that are inside its AOI and hold a finite value
ScaleCells ==
    LET g == call.grid
        aoi == computeAOIBounds(call.mode, g, call.aoiBounds)
    IN  {i \in 0..(g.width * g.height - 1) :
            /\ isFinite(call.arr01[i + 1])
            /\ aoi # Null =>
                  LET lat == g.lat_max - (i \div g.width)
                      lon == g.lon_min + (i % g.width)
                  IN  /\ aoi.south <= lat /\ lat <= aoi.north
                      /\ aoi.west <= lon /\ lon <= aoi.east}

\* vals is the ascending arrangement of the values of ScaleCells
IsSortedDist(vals) ==
    /\ Len(vals) = Cardinality(ScaleCells)
    /\ \A j \in 1..(Len(vals) - 1) : vals[j] <= vals[j + 1]
    /\ \A x \in Range(vals) \cup {call.arr01[i + 1] : i \in ScaleCells} :
          Cardinality({j \in DOMAIN vals : vals[j] = x})
              = Cardinality({i \in ScaleCells : call.arr01[i + 1] = x})

\* C14: with n >= 1 finite in-AOI values sorted ascending, scaleMin is the
\* element at index floor(0.02*(n-1)) and scaleMax the element at index
\* floor(0.98*(n-1)), so scaleMin <= scaleMax; with no finite in-AOI value the
\* bounds are 0 and 1.
C14_ScaleBounds ==
    (pc = "done" /\ call.fn = "scale") =>
        LET vals == ret.scale.distVals
            n == Len(vals)
        IN  /\ IsSortedDist(vals)
            /\ n >= 1 => /\ ret.scale.scaleMin = vals[(2 * (n - 1)) \div 100 + 1]
                         /\ ret.scale.scaleMax = vals[(98 * (n - 1)) \div 100 + 1]
                         /\ ret.scale.scaleMin <= ret.scale.scaleMax
            /\ n = 0 => ret.scale.scaleMin = 0 /\ ret.scale.scaleMax = One

\* more than fifty values: the lower bound is not the minimum, the upper not the maximum
C14_Witness ==
    /\ pc = "done" /\ call.fn = "scale"
    /\ Len(ret.scale.distVals) > 50
    /\ ret.scale.distVals[1] < ret.scale.scaleMin
    /\ ret.scale.scaleMin < ret.scale.scaleMax
    /\ ret.scale.scaleMax < ret.scale.distVals[Len(ret.scale.distVals)]

\* the number of values of the distribution that are <= v
CountLeq(vals, v) == Cardinality({j \in DOMAIN vals : vals[j] <= v})

\* C15: for a non-empty stored distribution and finite v, percentileOfValue(v)
\* is (number of distribution values <= v) / n, hence monotonic: v1 < v2
\* implies percentileOfValue(v1) <= percentileOfValue(v2).
C15_Percentile ==
    (pc = "done" /\ call.fn = "scale" /\ Len(ret.scale.distVals) > 0) =>
        LET vals == ret.scale.distVals
        IN  /\ isFinite(call.v) =>
                  ret.pct = [num |-> CountLeq(vals, call.v), den |-> Len(vals)]
            /\ ret.pct2 = [num |-> CountLeq(vals, call.v2), den |-> Len(vals)]
            /\ (isFinite(call.v) /\ call.v < call.v2) => ret.pct.num <= ret.pct2.num

\* a distribution with repeated values, v among them, and a strictly larger v2
C15_Witness ==
    /\ pc = "done" /\ call.fn = "scale"
    /\ Len(ret.scale.distVals) >= 3
    /\ isFinite(call.v) /\ call.v < call.v2
    /\ Cardinality({j \in DOMAIN ret.scale.distVals : ret.scale.distVals[j] = call.v}) >= 2
    /\ 0 < ret.pct.num /\ ret.pct.num < ret.pct2.num /\ ret.pct.num < ret.pct.den

(***************************************************************************)
(* SpecWeights: the weight controls (preset select, reset button, the      *)
(* three number inputs) followed by a cluster build that scores with       *)
(* state.clusterWeights.  The page has applied the default preset.         *)
(***************************************************************************)
WeightPresets == {"stable", "peak", "wide", "default"}
\* what a user types into a weight input: nothing or text (NaN), or a number
WeightEntries == {NaN, 0, 10000}

InitWeights ==
    /\ FnIdle
    /\ analysisMask = Null
    /\ AoiIdle /\ RunIdle

weightsUnchanged == UNCHANGED <<fnVars, aoiVars, cache, lastComputed, reqs, toasts, qcOn,
                                autoOn, anTimer, sinceChange, scale, xVars>>

\* weightPreset change
WeightPresetChange(name) ==
    /\ pc = "idle"
    /\ clusterWeights' = applyWeightPreset(name)
    /\ weightInputs' = shownWeights(clusterWeights')
    /\ weightsUnchanged

\* resetWeightsBtn click
ResetWeightsClick ==
    /\ pc = "idle"
    /\ clusterWeights' = applyWeightPreset("default")
    /\ weightInputs' = shownWeights(clusterWeights')
    /\ weightsUnchanged

\* change of the k-th weight input to x: readWeightsFromUI
WeightInputChange(k, x) ==
    /\ pc = "idle"
    /\ LET inp == [weightInputs EXCEPT ![k] = x]
       IN  clusterWeights' = setWeights(inp[1], inp[2], inp[3])
    /\ weightInputs' = shownWeights(clusterWeights')
    /\ weightsUnchanged

\* a cluster build over computed data
BuildClustersClick(infos, topsBound) ==
    /\ pc = "idle"
    /\ call' = [infos |-> infos, topsBound |-> topsBound]
    /\ ret' = buildClusters(TRUE, infos, clusterWeights, topsBound, Null)
    /\ pc' = "done"
    /\ UNCHANGED <<aoiVars, runVars>>

NextWeights ==
    \/ \E name \in WeightPresets : WeightPresetChange(name)
    \/ ResetWeightsClick
    \/ \E k \in 1..3, x \in WeightEntries : WeightInputChange(k, x)
    \/ \E infos \in InfoListsOf({<<4, 1>>}), tb \in BOOLEAN : BuildClustersClick(infos, tb)

SpecWeights == InitWeights /\ [][NextWeights]_vars

\* C16: after any weight change (preset, reset, manual entry of non-negative
\* numbers, all zeros included) the weights a + b + c sum to 1.
C16_WeightsSumToOne ==
    clusterWeights.a + clusterWeights.b + clusterWeights.c = clusterWeights.den

\* the position of the cluster numbered id in the sorted list
PosOf(sorted, id) == CHOOSE j \in DOMAIN sorted : sorted[j].id = id

\* C17: renderClusters orders the clusters by non-increasing score, clusters
\* of equal score keep their discovery order, and the cluster flagged best is
\* the first of that order, one of maximum score.
C17_SortedByScore ==
    pc = "done" =>
        LET infos == call.infos
            sorted == ret.sorted
            w == clusterWeights
        IN  /\ Len(sorted) = Len(infos)
            /\ \A j \in DOMAIN infos : \E k \in DOMAIN sorted : sorted[k] = infos[j]
            /\ \A j \in 1..(Len(sorted) - 1) : scoreOf(sorted[j], w) >= scoreOf(sorted[j + 1], w)
            /\ \A i, j \in DOMAIN infos :
                  (i < j /\ scoreOf(infos[i], w) = scoreOf(infos[j], w)) =>
                      PosOf(sorted, infos[i].id) < PosOf(sorted, infos[j].id)
            /\ Len(sorted) > 0 =>
                  /\ ret.bestId = sorted[1].id
                  /\ \A j \in DOMAIN infos : scoreOf(sorted[1], w) >= scoreOf(infos[j], w)

\* two different clusters of equal positive score under weights that are all positive
C17_Witness ==
    /\ pc = "done" /\ Len(call.infos) >= 2
    /\ clusterWeights.a > 0 /\ clusterWeights.b > 0 /\ clusterWeights.c > 0
    /\ \E i, j \in DOMAIN call.infos :
          /\ i < j /\ call.infos[i] # [call.infos[j] EXCEPT !.id = call.infos[i].id]
          /\ scoreOf(call.infos[i], clusterWeights) = scoreOf(call.infos[j], clusterWeights)

(***************************************************************************)
(* FairSpec: Spec in which the fetches in flight are answered, with        *)
(* success or with failure.                                                *)
(***************************************************************************)
FetchAnswered ==
    \E i \in 1..MaxReqs, u \in FetchUrls :
        (\E method \in AggChoices : FetchOk(i, u, method)) \/ FetchFail(i, u)

\* while a fetch is in flight an answer arrives; the fetches of a behaviour
\* are finitely many, so each of them is answered
FairSpec == Spec /\ WF_vars(FetchAnswered)

\* invocation i reaches its end in this step
Completes(i) ==
    /\ i \in DOMAIN reqs' /\ reqs'[i].phase = "done"
    /\ i \in DOMAIN reqs => reqs[i].phase # "done"

\* invocation i has come to its end and none of its fetches is in flight
Ended(i) == i \in DOMAIN reqs /\ reqs[i].phase \in {"done", "failed"} /\ reqs[i].pending = {}

\* an Analyze click while fetches of an earlier invocation are outstanding
SecondStart ==
    /\ \E i \in DOMAIN reqs : reqs[i].pending # {} /\ reqs[i].phase \notin {"done", "failed"}
    /\ Len(reqs') = Len(reqs) + 1

\* C18: a computeAndRender started while fetches of an earlier one are
\* outstanding cancels nothing; every invocation comes to its end once its
\* fetches are answered (to "failed" only through a failed fetch); an
\* invocation that reaches its end stores its result in state.lastComputed
\* and nothing else changes it, so state.lastComputed holds the result of the
\* invocation that completed last.
C18_LastCompletionWins ==
    /\ [][SecondStart => \A i \in DOMAIN reqs : reqs'[i] = reqs[i]]_vars
    /\ [][\A i \in 1..MaxReqs :
             Completes(i) => /\ lastComputed' # Null /\ lastComputed'.req = i
                             /\ i \in DOMAIN reqs => lastComputed'.timeIsos = reqs[i].sel]_vars
    /\ [][lastComputed' # lastComputed => \E i \in 1..MaxReqs : Completes(i)]_vars
    /\ <>[](\A i \in DOMAIN reqs : Ended(i))

\* the earlier of two overlapping invocations completed last and its result stands
C18_Witness ==
    /\ Len(reqs) = 2
    /\ reqs[1].phase = "done" /\ reqs[2].phase = "done"
    /\ lastComputed # Null /\ lastComputed.req = 1

(***************************************************************************)
(* SpecAuto: auto-analysis.  scheduleAnalyze re-arms one 320 ms timeout on *)
(* every change of an exploratory control; the timeout starts              *)
(* computeAndRender.  Time advances in steps of at most TickMs and does    *)
(* not pass the moment a pending timeout is due.                           *)
(***************************************************************************)
ExploreIds == {"gridToggle", "avgToggle", "aoiMode", "clusterThreshold", "clusterEpsKm",
               "clusterMinPts", "stepSelect", "aggSelect", "mapSelect", "modelSelect"}
\* the controls that also carry the change listener of the selects (setDirty)
SelectIds == {"aggSelect", "mapSelect", "modelSelect"}

\* scheduleAnalyze(): _anTimer after the call; clearTimeout drops a pending timeout
scheduleAnalyze_noClear(on, timer) ==
    IF ~on \/ timer # Null THEN timer ELSE [ms |-> AnDelay]
scheduleAnalyze(on, timer) == IF ~on THEN timer ELSE [ms |-> AnDelay]

\* the clock of the changes made with auto-analyze on
changeSeen(on, since) == IF on THEN 0 ELSE since

autoUnchanged == UNCHANGED <<fnVars, baseMask, userAoi, userMask, analysisMask, aoiText, alerts,
                             grid, pointsHandlers, load, cache, toasts, qcOn,
                             clusterWeights, weightInputs, xVars>>

\* autoAnalyzeToggle is clicked
AutoToggle ==
    /\ autoOn' = ~autoOn
    /\ UNCHANGED <<anTimer, sinceChange, reqs, lastComputed, dirty, scale>>
    /\ autoUnchanged

\* change of one of the exploratory controls
ExploreChange(id) ==
    /\ Len(reqs) < MaxReqs
    /\ anTimer' = scheduleAnalyze(autoOn, anTimer)
    /\ sinceChange' = changeSeen(autoOn, sinceChange)
    /\ dirty' = IF id \in SelectIds THEN TRUE ELSE dirty
    /\ UNCHANGED <<autoOn, reqs, lastComputed, scale>>
    /\ autoUnchanged

\* input on the time slider: if($("avgToggle")?.checked) return;
SliderInput(avg) ==
    /\ Len(reqs) < MaxReqs
    /\ anTimer' = IF avg THEN anTimer ELSE scheduleAnalyze(autoOn, anTimer)
    /\ sinceChange' = IF avg THEN sinceChange ELSE changeSeen(autoOn, sinceChange)
    /\ UNCHANGED <<autoOn, reqs, lastComputed, dirty, scale>>
    /\ autoUnchanged

\* the second corner of a drawn AOI is clicked on the map
MapClick ==
    /\ Len(reqs) < MaxReqs
    /\ anTimer' = scheduleAnalyze(autoOn, anTimer)
    /\ sinceChange' = changeSeen(autoOn, sinceChange)
    /\ UNCHANGED <<autoOn, reqs, lastComputed, dirty, scale>>
    /\ autoUnchanged

\* time passes while a timeout is pending and not yet due
Tick ==
    /\ anTimer # Null /\ anTimer.ms > 0
    /\ LET d == Min2(TickMs, anTimer.ms)
       IN  /\ anTimer' = [ms |-> anTimer.ms - d]
           /\ sinceChange' = Min2(AnDelay, sinceChange + d)
    /\ UNCHANGED <<autoOn, reqs, lastComputed, dirty, scale>>
    /\ autoUnchanged

\* the timeout is due: ()=>{ try{ computeAndRender(); }catch(_){} }, up to the
\* first await of computeAndRender on the network
TimerFires(sel, mapKey, method) ==
    /\ anTimer = [ms |-> 0]
    /\ anTimer' = Null
    /\ LET id == Len(reqs) + 1
           r0 == [sel |-> sel, mapKey |-> mapKey, phase |-> "layers",
                  pending |-> toFetch(urlsOf(layerKey(mapKey), sel), cache),
                  arrAgg |-> Null, conf |-> Null]
       IN  \E out \in {resume(id, r0, cache, method, qcOn, analysisMask)} :
               /\ reqs' = Append(reqs, out.r)
               /\ lastComputed' = storeLastComputed(lastComputed, out.lc)
               /\ scale' = storeScale(scale, out.sc)
    /\ UNCHANGED <<autoOn, sinceChange, dirty>>
    /\ autoUnchanged

TimerFiresStep ==
    \E sel \in Selections, mapKey \in MapKeys, method \in AggChoices :
        TimerFires(sel, mapKey, method)

NextAuto ==
    \/ AutoToggle
    \/ \E id \in ExploreIds : ExploreChange(id)
    \/ \E avg \in BOOLEAN : SliderInput(avg)
    \/ MapClick
    \/ Tick
    \/ TimerFiresStep

SpecAuto == Init /\ [][NextAuto]_vars

\* time advances and a due timeout runs
FairAuto == SpecAuto /\ WF_vars(Tick) /\ WF_vars(TimerFiresStep)

\* a step that is a change of an exploratory control
ChangeStep ==
    \/ \E id \in ExploreIds : ExploreChange(id)
    \/ SliderInput(FALSE)
    \/ MapClick

\* C19: with auto-analyze on, every change re-arms the one pending timeout,
\* which is due 320 ms after the last change; computeAndRender is started by
\* that timeout only, once, exactly 320 ms after the last change of a burst,
\* and it is started unless a further change comes first; a change made
\* with auto-analyze off arms nothing and starts nothing.
C19_Debounced ==
    /\ [](anTimer # Null => anTimer.ms = AnDelay - sinceChange)
    /\ [][(ChangeStep /\ autoOn) =>
             (anTimer' = [ms |-> AnDelay] /\ sinceChange' = 0 /\ reqs' = reqs)]_vars
    /\ [][(ChangeStep /\ ~autoOn) => UNCHANGED <<anTimer, sinceChange, reqs>>]_vars
    /\ [][reqs' # reqs => (/\ anTimer = [ms |-> 0] /\ sinceChange = AnDelay
                           /\ Len(reqs') = Len(reqs) + 1 /\ anTimer' = Null)]_vars
    /\ []((anTimer # Null /\ sinceChange > 0) => <>(anTimer = Null \/ sinceChange = 0))

\* a second change 160 ms or more into a burst has re-armed the timeout, and
\* the one start of the burst has happened 320 ms after it
C19_Witness ==
    /\ Len(reqs) = 1 /\ anTimer = Null /\ sinceChange = AnDelay /\ autoOn

\* the pointwise AND of two masks of one length
MaskAnd(b, u) == [i \in DOMAIN b |-> IF b[i] = 1 /\ u[i] = 1 THEN 1 ELSE 0]

\* C20: in every state that a sequence of AOI actions reaches on a loaded
\* session, state.analysisMask is the pointwise AND of state.baseMask and
\* state.userMask, or state.baseMask itself when state.userMask is null.
C20_EffectiveMask ==
    (SessionLoaded /\ load = "idle") =>
        analysisMask = IF userMask = Null THEN baseMask ELSE MaskAnd(baseMask, userMask)

(***************************************************************************)
(* The colour scale against the committed result.                          *)
(***************************************************************************)
\* C21: whenever state.lastComputed is set, state.scaleMin, state.scaleMax
\* and state._distVals are the ones computeScaleAndPercentiles gives for
\* state.lastComputed.arrAgg, also after a failed analysis and after
\* overlapping analyses.
C21_ScaleOfCommitted ==
    lastComputed # Null =>
        /\ scale # Null
        /\ scale = scaleOf(lastComputed.arrAgg)

(***************************************************************************)
(* SpecPlay: the Play/Pause button, the tick closures of startPlay, their  *)
(* timeouts and the answers to the fetches of the analyses they start.     *)
(* The session has the times RunTimes, Average off and a step of 6 hours.  *)
(***************************************************************************)
\* stopPlay
stopPlay(p) ==
    LET cleared == IF p.timer # Null /\ p.chains[p.timer.chain].at = "wait"
                   THEN [p.chains EXCEPT ![p.timer.chain].at = "end"]
                   ELSE p.chains
    IN  [p EXCEPT !.playing = FALSE, !.chains = cleared, !.timer = Null]

playUnchanged == UNCHANGED <<fnVars, aoiVars, cache, toasts, qcOn, uiVars, fb>>

\* the body of tick for closure c from busy = true on, up to the first await
\* of computeAndRender on the network, or through finally when nothing is
\* awaited
TickBody(p, c, mapKey, method) ==
    /\ Len(reqs) < MaxReqs
    /\ LET n == Len(RunTimes)
           dir == IF p.i1 >= p.i0 THEN 1 ELSE 0 - 1
           stepHours == 6
           stepN == Max2(1, (stepHours + 3) \div 6)   \* Math.max(1, Math.round(stepHours/6))
           \* while(next < 0) next += n; while(next >= n) next -= n;
           next0 == (p.i0 + dir * stepN) % n
           next1 == (next0 + dir * p.chains[c].rangeLen) % n
           id == Len(reqs) + 1
           sel == <<RunTimes[next1 + 1]>>
           r0 == [sel |-> sel, mapKey |-> mapKey, phase |-> "layers",
                  pending |-> toFetch(urlsOf(layerKey(mapKey), sel), cache),
                  arrAgg |-> Null, conf |-> Null]
           p1 == [p EXCEPT !.i0 = next0, !.i1 = next1,
                           !.chains[c] = [@ EXCEPT !.busy = TRUE, !.at = "run", !.req = id]]
       IN  \E out \in {resume(id, r0, cache, method, qcOn, analysisMask)} :
               /\ reqs' = Append(reqs, out.r)
               /\ lastComputed' = storeLastComputed(lastComputed, out.lc)
               /\ scale' = storeScale(scale, out.sc)
               /\ play' = playAfterAwait(p1, reqs')

\* tick of closure c
tick(p, c, mapKey, method) ==
    IF ~p.playing
    THEN /\ play' = [p EXCEPT !.chains[c].at = "end"]
         /\ UNCHANGED <<reqs, lastComputed, scale>>
    ELSE IF p.chains[c].busy
    THEN /\ play' = [p EXCEPT !.chains[c] = [@ EXCEPT !.at = "wait", !.ms = BusyRetry],
                              !.timer = [chain |-> c]]
         /\ UNCHANGED <<reqs, lastComputed, scale>>
    ELSE TickBody(p, c, mapKey, method)

\* startPlay with Average off: a new closure, and its first tick at once
startPlay(p, mapKey, method) ==
    LET c == Len(p.chains) + 1
        rangeLen == IF p.i1 >= p.i0 THEN p.i1 - p.i0 ELSE p.i0 - p.i1
        p1 == [p EXCEPT !.playing = TRUE,
                        !.chains = Append(@, [busy |-> FALSE, rangeLen |-> rangeLen,
                                              at |-> "end", ms |-> 0, req |-> 0])]
    IN  tick(p1, c, mapKey, method)

\* playBtn click; avg is avgToggle's state
PlayClick(avg, mapKey, method) ==
    /\ IF play.playing
       THEN /\ play' = stopPlay(play)
            /\ UNCHANGED <<reqs, lastComputed, scale>>
       ELSE IF avg
       THEN UNCHANGED <<play, reqs, lastComputed, scale>>
       ELSE startPlay(play, mapKey, method)
    /\ UNCHANGED dirty
    /\ playUnchanged

\* the timeout of closure c is due
PlayTimerFires(c, mapKey, method) ==
    /\ c \in DOMAIN play.chains
    /\ play.chains[c].at = "wait" /\ play.chains[c].ms = 0
    /\ tick(play, c, mapKey, method)
    /\ UNCHANGED dirty
    /\ playUnchanged

\* the closures whose timeout is pending
Waiting(p) == {c \in DOMAIN p.chains : p.chains[c].at = "wait"}

\* time passes while no pending timeout is due
PlayClock ==
    /\ Waiting(play) # {}
    /\ \A c \in Waiting(play) : play.chains[c].ms > 0
    /\ \E d \in 1..PlayQuantum :
          /\ \A c \in Waiting(play) : play.chains[c].ms >= d
          /\ \/ d = PlayQuantum
             \/ \E c \in Waiting(play) : play.chains[c].ms = d
          /\ play' = [play EXCEPT !.chains =
                         [c \in DOMAIN @ |-> IF c \in Waiting(play)
                                             THEN [@[c] EXCEPT !.ms = @ - d] ELSE @[c]]]
    /\ UNCHANGED <<reqs, lastComputed, scale, dirty>>
    /\ playUnchanged

NextPlay ==
    \/ \E avg \in BOOLEAN, mapKey \in MapKeys, method \in AggChoices :
          PlayClick(avg, mapKey, method)
    \/ \E c \in 1..MaxReqs, mapKey \in MapKeys, method \in AggChoices :
          PlayTimerFires(c, mapKey, method)
    \/ PlayClock
    \/ \E i \in 1..MaxReqs, u \in FetchUrls, method \in AggChoices : FetchOk(i, u, method)
    \/ \E i \in 1..MaxReqs, u \in FetchUrls : FetchFail(i, u)

SpecPlay == Init /\ [][NextPlay]_vars

\* the closures whose tick is running or pending
LiveTicks == {c \in DOMAIN play.chains : play.chains[c].at \in {"run", "wait"}}

\* C22: for every sequence of Play/Pause clicks there is never more than one
\* pending-or-running play tick, so two play-driven computeAndRender
\* invocations never overlap.
C22_SingleTickChain == Cardinality(LiveTicks) <= 1

(***************************************************************************)
(* The polygon of a contour cluster against its member cells.  ring is the *)
(* polygon in grid-corner coordinates; the centre of cell (x, y) is        *)
(* (x + 1/2, y + 1/2).                                                     *)
(***************************************************************************)
\* SpecHoles: buildClustersContour on the HoleSide x HoleSide grid with up to
\* MaxHoleCells cells anywhere turned into background (holes, notches, cells
\* cut off and corners where the foreground touches itself)
HoleInputs ==
    {[grid |-> CGrid(HoleSide, HoleSide),
      arr  |-> [i \in 1..(HoleSide * HoleSide) |-> IF i \in bgCells THEN 50 ELSE 90]] :
        bgCells \in {b \in SUBSET (1..(HoleSide * HoleSide)) : Cardinality(b) <= MaxHoleCells}}

InitHoles ==
    /\ pc = "call"
    /\ \E inp \in HoleInputs, mp \in {"1", "3"} :
          call = [grid |-> inp.grid, arr |-> inp.arr, thrText |-> "", minPtsText |-> mp]
    /\ ret = << >>
    /\ analysisMask = Null
    /\ AoiIdle /\ RunIdle

SpecHoles == InitHoles /\ [][NextContour]_vars

\* the edges of the polygon that a ray from the centre of cell (x, y) towards
\* larger x crosses
CrossedEdges(ring, x, y) ==
    {j \in 1..(Len(ring) - 1) :
        /\ ring[j][1] = ring[j + 1][1]
        /\ ring[j][1] > x
        /\ Min2(ring[j][2], ring[j + 1][2]) <= y
        /\ Max2(ring[j][2], ring[j + 1][2]) >= y + 1}

\* the centre of cell ii is enclosed by the polygon (odd number of crossings)
CellInside(ring, ii, W) ==
    Cardinality(CrossedEdges(ring, ii % W, ii \div W)) % 2 = 1

\* C23: the polygon of every contour cluster is the outer boundary ring of
\* its component: every member cell lies inside it, also when the component
\* encloses holes.
C23_PolygonEnclosesCells ==
    pc = "done" =>
        \A c \in DOMAIN ret : \A n \in DOMAIN ret[c].cells :
            CellInside(ret[c].ring, ret[c].cells[n], call.grid.width)

(***************************************************************************)
(* dbscan: core points and the shape of the result.  Distances are the     *)
(* ones regionQuery measures.                                              *)
(***************************************************************************)
\* the other points within epsKm of point i
OthersInRange(i) == Range(regionQuery(call.points, i, call.epsKm))

\* C24: a point is a core point exactly when at least minPts other points
\* (itself not counted) lie within epsKm of it: such a point is in a
\* cluster, and every cluster holds such a point, since a point with fewer
\* others in range neither seeds nor expands one.
C24_CoreCountsOthers ==
    pc = "done" =>
        /\ \A i \in DOMAIN call.points :
              Cardinality(OthersInRange(i)) >= call.minPts => ret.labels[i] >= 0
        /\ \A c \in DOMAIN ret.clusters :
              \E i \in Range(ret.clusters[c]) :
                  Cardinality(OthersInRange(i)) >= call.minPts

\* the core points as the code counts them: the point itself and the others
\* in range are at least minPts
CorePoints ==
    {i \in DOMAIN call.points : Cardinality(OthersInRange(i)) + 1 >= call.minPts}

ClusterOf(c) == Range(ret.clusters[c])

FgCells ==
    {i \in 0..(call.grid.width * call.grid.height - 1) :
        isFinite(call.arr[i + 1]) /\ call.arr[i + 1] >= numberOr(call.thrText, 85)}

\* cells i and j share an edge
Adjacent(i, j) ==
    LET W == call.grid.width
    IN  \/ (i \div W = j \div W /\ (i - j = 1 \/ j - i = 1))
        \/ (i - j = W \/ j - i = W)

\* the 4-connected foreground component around the cells S
RECURSIVE Grow(_)
Grow(S) ==
    LET T == S \cup {j \in FgCells : \E i \in S : Adjacent(i, j)}
    IN  IF T = S THEN S ELSE Grow(T)

FgComponents == {Grow({i}) : i \in FgCells}

\* C26: buildClustersContour reports a 4-connected foreground component iff
\* its cell count is at least the configured minCells (6 when the field is
\* empty) and discards every smaller one, for every configured minCells >= 1.
C26_MinCells ==
    (pc = "done" /\ numberOr(call.minPtsText, 6) >= 1) =>
        /\ {Range(ret[c].cells) : c \in DOMAIN ret} =
               {C \in FgComponents : Cardinality(C) >= numberOr(call.minPtsText, 6)}
        /\ \A c, d \in DOMAIN ret : c # d => ret[c].cells # ret[d].cells

(***************************************************************************)
(* The candidate points of the density-based strategy.                     *)
(***************************************************************************)
\* the cells whose finite aggregated value exceeds the threshold; a cell
\* outside the AOI is masked and its aggregate is NaN
ExceedingCells ==
    {i \in 0..3 : /\ isFinite(ret.arrAgg[i + 1])
                  /\ toPercent(ret.arrAgg)[i + 1] > numberOr(call.thrText, 85)}

\* C27: the candidate points of buildClustersDBSCAN are exactly the pixels
\* whose finite aggregated value exceeds the threshold and that lie inside
\* the AOI; when more than 2500 qualify only the 2500 of highest value are
\* kept, no excluded one having a higher value than an included one.
C27_Candidates ==
    pc = "done" =>
        /\ CandidateCells \subseteq ExceedingCells
        /\ Len(ret.db.pts) = Min2(Cardinality(ExceedingCells), MaxClusterPts)
        /\ \A i \in ExceedingCells \ CandidateCells : \A j \in CandidateCells :
              ret.arrAgg[i + 1] <= ret.arrAgg[j + 1]

(***************************************************************************)
(* The rings of buildComponentRings against the boundary of the component. *)
(* A unit edge is the pair <<from, to>> of grid corners, the component on  *)
(* its right-hand side as the code emits it.                               *)
(***************************************************************************)
\* the boundary unit edges of the component made of the cells C
BoundaryEdges(C) ==
    LET W == call.grid.width
        H == call.grid.height
        in(x, y) == x >= 0 /\ x < W /\ y >= 0 /\ y < H /\ (y * W + x) \in C
        Cell(i) == <<i % W, i \div W>>
    IN  UNION {
          (IF in(Cell(i)[1], Cell(i)[2] - 1) THEN {}
           ELSE {<< <<Cell(i)[1], Cell(i)[2]>>, <<Cell(i)[1] + 1, Cell(i)[2]>> >>})
          \cup
          (IF in(Cell(i)[1] + 1, Cell(i)[2]) THEN {}
           ELSE {<< <<Cell(i)[1] + 1, Cell(i)[2]>>, <<Cell(i)[1] + 1, Cell(i)[2] + 1>> >>})
          \cup
          (IF in(Cell(i)[1], Cell(i)[2] + 1) THEN {}
           ELSE {<< <<Cell(i)[1] + 1, Cell(i)[2] + 1>>, <<Cell(i)[1], Cell(i)[2] + 1>> >>})
          \cup
          (IF in(Cell(i)[1] - 1, Cell(i)[2]) THEN {}
           ELSE {<< <<Cell(i)[1], Cell(i)[2] + 1>>, <<Cell(i)[1], Cell(i)[2]>> >>})
          : i \in C}

\* the unit edges on the straight segment from corner a to corner b
UnitEdges(a, b) ==
    IF a[2] = b[2]
    THEN IF b[1] >= a[1]
         THEN {<< <<x, a[2]>>, <<x + 1, a[2]>> >> : x \in a[1]..(b[1] - 1)}
         ELSE {<< <<x + 1, a[2]>>, <<x, a[2]>> >> : x \in b[1]..(a[1] - 1)}
    ELSE IF a[1] = b[1]
    THEN IF b[2] >= a[2]
         THEN {<< <<a[1], y>>, <<a[1], y + 1>> >> : y \in a[2]..(b[2] - 1)}
         ELSE {<< <<a[1], y + 1>>, <<a[1], y>> >> : y \in b[2]..(a[2] - 1)}
    ELSE {}

\* the uses of unit edges by the rings: <<ring, segment, edge>>
EdgeUses(rings) ==
    UNION {UNION {{<<r, j, e>> : e \in UnitEdges(rings[r][j], rings[r][j + 1])} :
                    j \in 1..(Len(rings[r]) - 1)} : r \in DOMAIN rings}

\* C28: for every component buildClustersContour reports (also one that
\* touches itself at a corner or encloses holes) buildComponentRings ends,
\* every ring it returns is closed, and every boundary unit edge of the
\* component is used by exactly one ring, once.
C28_RingsCoverBoundary ==
    pc = "done" =>
        \A c \in DOMAIN ret :
            LET rings == ret[c].rings
                B == BoundaryEdges(Range(ret[c].cells))
            IN  /\ \A r \in DOMAIN rings :
                      Len(rings[r]) >= 5 /\ rings[r][1] = rings[r][Len(rings[r])]
                /\ {u[3] : u \in EdgeUses(rings)} = B
                /\ Cardinality(EdgeUses(rings)) = Cardinality(B)

\* C28 witness: a component that encloses two holes which touch at a corner
\* (two boundary edges leave that corner), traced as more than one ring.
C28_Witness ==
    /\ pc = "done"
    /\ \E c \in DOMAIN ret :
          LET B == BoundaryEdges(Range(ret[c].cells))
          IN  /\ Len(ret[c].rings) >= 2
              /\ \E e, f \in B : e # f /\ e[1] = f[1]
              /\ \E r \in DOMAIN ret[c].rings :
                    \A v \in Range(ret[c].rings[r]) :
                        v[1] \in 1..(call.grid.width - 1) /\ v[2] \in 1..(call.grid.height - 1)

(***************************************************************************)
(* renderFromCache: the filtered Top list stored in                        *)
(* state.lastComputed.topFiltered.  Probabilities are in units of 1/One.   *)
(***************************************************************************)
\* applyFilterMaskToArray(arr) under state.filterMask
applyFilterMaskToArray(arr, filterMask) ==
    IF filterMask = Null THEN arr
    ELSE [i \in DOMAIN arr |->
            IF ~isFinite(arr[i]) THEN NaN
            ELSE IF filterMask[i] = 1 THEN arr[i] ELSE NaN]

\* state.lastComputed.topFiltered after the call, Null when the call returns
\* at once; minP and lim are getTopFilter()'s, distVals is state._distVals.
\* percentileOfValue(pt.p/100): a[mid] <= p/100 is 100*a[mid] <= p
renderFromCache(lc, distVals, filterMask, minP, lim, g) ==
    IF lc = Null THEN Null
    ELSE LET arrShown == applyFilterMaskToArray(lc.arrAgg, filterMask)
             topAll == topKFromArray(arrShown, 100, g)
             kept == SelectSeq(topAll, LAMBDA x : x.p >= minP)
             topFiltered == SubSeq(kept, 1, Min2(Len(kept), Min2(100, lim)))
             dist == IF distVals = Null THEN << >> ELSE distVals
         IN  [idx \in DOMAIN topFiltered |->
                [rank |-> idx,
                 lat  |-> topFiltered[idx].lat,
                 lon  |-> topFiltered[idx].lon,
                 p    |-> topFiltered[idx].p,
                 pct  |-> percentileOfValue([j \in DOMAIN dist |-> 100 * dist[j]],
                                            topFiltered[idx].p)]]

\* SpecRender: renderFromCache on every committed 2 x 2 aggregate, with the
\* distribution computed from it, under every post-filter mask and Top filter
RenderVals == {NaN, 0, One \div 4, One \div 2, One}
RenderMinPs == {0, One \div 2}
RenderLims == {1, 2, 100}

InitRender ==
    /\ pc = "call"
    /\ \E arr \in [1..4 -> RenderVals], fm \in {Null, <<1, 1, 1, 1>>, <<1, 0, 1, 0>>},
          minP \in RenderMinPs, lim \in RenderLims, has \in BOOLEAN :
          call = [lc |-> IF has THEN [arrAgg |-> arr] ELSE Null,
                  distVals |-> IF has
                               THEN computeScaleAndPercentiles(arr, ScaleGrid, Null).distVals
                               ELSE Null,
                  filterMask |-> fm, minP |-> minP, lim |-> lim]
    /\ ret = << >>
    /\ analysisMask = Null
    /\ AoiIdle /\ RunIdle

RenderStep ==
    /\ pc = "call"
    /\ ret' = renderFromCache(call.lc, call.distVals, call.filterMask, call.minP, call.lim,
                              ScaleGrid)
    /\ pc' = "done"
    /\ UNCHANGED <<call, aoiVars, runVars>>

NextRender == RenderStep

SpecRender == InitRender /\ [][NextRender]_vars

\* C29: after renderFromCache the filtered Top list has ranks 1..n in
\* descending probability, holds only points of probability >= the minimum
\* filter and at most min(100, limit) of them, and the percentile attached
\* to each point is percentileOfValue of that point's own probability.
C29_TopFiltered ==
    (pc = "done" /\ call.lc # Null) =>
        /\ Len(ret) <= Min2(100, call.lim)
        /\ \A r \in DOMAIN ret :
              /\ ret[r].rank = r
              /\ ret[r].p >= call.minP
              /\ r > 1 => ret[r - 1].p >= ret[r].p
              /\ ret[r].pct = percentileOfValue(call.distVals, ret[r].p)

(***************************************************************************)
(* SpecFb: Save clicks in the feedback dialog, the IndexedDB writes they   *)
(* start and the clock.  Two clicks are at different readings of the       *)
(* clock.                                                                  *)
(***************************************************************************)
\* the saveFbBtn click handler up to await saveFeedback(rec)
saveClick(f, lat, lon, g) ==
    LET f0 == [f EXCEPT !.clicked = f.now]
    IN  IF f.now - f.lastFbTs < RateMs THEN [f0 EXCEPT !.hint = "rate"]
        ELSE IF ~isFinite(lat) \/ ~isFinite(lon) THEN [f0 EXCEPT !.hint = "latlon"]
        ELSE IF \/ lat < g.lat_min - 2 \/ lat > g.lat_max + 2
                \/ lon < g.lon_min - 2 \/ lon > g.lon_max + 2
             THEN [f0 EXCEPT !.hint = "bounds"]
        ELSE [f0 EXCEPT !.pending = @ \cup {[now |-> f.now, lat |-> lat, lon |-> lon]}]

fbUnchanged == UNCHANGED <<fnVars, aoiVars, cache, lastComputed, reqs, toasts, qcOn, uiVars,
                           scale, play>>

SaveClick(lat, lon) ==
    /\ fb.now > fb.clicked
    /\ fb' = saveClick(fb, lat, lon, grid)
    /\ fbUnchanged

\* tx.oncomplete of the write of record w: the handler goes on after its await
SaveDone(w) ==
    /\ w \in fb.pending
    /\ fb' = [fb EXCEPT !.pending = @ \ {w}, !.saved = @ \cup {w},
                        !.lastFbTs = w.now, !.hint = "saved"]
    /\ fbUnchanged

\* tx.onerror: saveFeedback rejects and the handler ends there
SaveFail(w) ==
    /\ w \in fb.pending
    /\ fb' = [fb EXCEPT !.pending = @ \ {w}]
    /\ fbUnchanged

\* time passes
FbClock ==
    /\ fb.now < FbEpoch + MaxFbSteps * FbQuantum
    /\ fb' = [fb EXCEPT !.now = @ + FbQuantum]
    /\ fbUnchanged

FbLats == {NaN, 20, 30}
FbLons == {NaN, 50}
FbRecords == [now : FbEpoch..(FbEpoch + MaxFbSteps * FbQuantum), lat : FbLats, lon : FbLons]

NextFb ==
    \/ \E lat \in FbLats, lon \in FbLons : SaveClick(lat, lon)
    \/ \E w \in FbRecords : SaveDone(w)
    \/ \E w \in FbRecords : SaveFail(w)
    \/ FbClock

SpecFb == Init /\ [][NextFb]_vars

\* C30: for any sequence of Save clicks, a click made while an earlier save
\* is still being written included, no two feedback records are saved whose
\* click times are less than 5000 ms apart.
C30_RateLimited ==
    \A v, w \in fb.saved :
        v # w => (v.now - w.now >= RateMs \/ w.now - v.now >= RateMs)

====
